---- MODULE Spec2Model ----
(***************************************************************************)
(* A model of the tease library's LazyIterator (src/src/iter.ts, the       *)
(* class at lines 519-923) together with the Option and Result values it   *)
(* is built on.                                                            *)
(*                                                                         *)
(* The state is the JavaScript heap a caller can observe: the LazyIterator *)
(* objects (source, operations array, reversed flag), the generator        *)
(* objects that serve as single-use sources, and the outcome of the last   *)
(* API call together with what the caller's spies saw during that call     *)
(* (callback invocations, elements pulled from the root source).           *)
(* Every public method is one action; an evaluation is computed by the     *)
(* operators below exactly as the generators of the source run it.         *)
(*                                                                         *)
(* Four further specifications share the variables: SpecOption (the calls  *)
(* of Option and Result), SpecPipe (pipe and syncPipe of src/src/pipe.ts), *)
(* SpecDefer (withDefer of src/src/defer.ts) and SpecAsyncDefer            *)
(* (withAsyncDefer, with its microtask queue and timers).                  *)
(***************************************************************************)
EXTENDS Integers, Sequences, FiniteSets, TLC

VARIABLES heap, gens, last, ncalls, ocall, pline, scope

vars == <<heap, gens, last, ncalls, ocall, pline, scope>>

\* heap, gens, last and ncalls are the state of the LazyIterator calls, ocall
\* that of the Option and Result calls, pline that of a pipeline and scope
\* that of a withDefer call; each specification leaves the others' untouched
notIter == <<ocall, pline, scope>>
notOption == <<heap, gens, last, ncalls, pline, scope>>
notPipe == <<heap, gens, last, ncalls, ocall, scope>>
notScope == <<heap, gens, last, ncalls, ocall, pline>>

\* the value of a variable its specification does not use
Idle == <<>>

(***************************************************************************)
(* Bounds of the model.                                                    *)
(***************************************************************************)
\* longest source array
MaxLen == 3
\* source arrays hold the values 1..MaxVal
MaxVal == 3
\* API calls made after Iterator.from
MaxCalls == 3
\* largest count argument passed to skip / take / nth
MaxArg == 2
\* the endless generator yields for ever; a call that has pulled GenLimit
\* elements from it and asks for another never returns and has no
\* post-state.  A call follows at most MaxCalls - 1 registered steps, each
\* filter or filterMap among them lets at least every second element
\* through, and a call that returns needs at most MaxArg + 2 evaluated
\* elements, so every call that returns in the code does so within
\* GenLimit pulls.
GenLimit == (2 ^ (MaxCalls - 1)) * (MaxArg + 2)

(***************************************************************************)
(* Inputs.                                                                 *)
(***************************************************************************)
\* the arrays handed to Iterator.from: runs k, k+1, ... wrapping at MaxVal
RunFrom(start, len) == [i \in 1..len |-> ((start + i - 2) % MaxVal) + 1]

Arrays == {<<>>} \cup {RunFrom(s, l) : s \in 1..MaxVal, l \in 1..MaxLen}

\* the value on which the throwing callbacks raise
BoomVal == 2

MapFns == {"inc", "boomMap"}
FilterFns == {"even", "boomPred"}
FilterMapFns == {"halfEven"}
TapFns == {"spy"}
\* the prefixes handed to debug: the callback named by a prefix is
\* (value) => console.log(prefix + value), its call count the lines logged
DebugPrefixes == {"x="}
\* reducers of reduce and fold, key functions of groupBy, comparators of sortBy
ReduceFns == {"add", "sub", "boomAdd"}
KeyFns == {"parity", "boomKey"}
CompareFns == {"asc", "boomCmp"}
\* the callbacks the caller spies on
Callbacks == MapFns \cup FilterFns \cup FilterMapFns \cup TapFns \cup DebugPrefixes
             \cup ReduceFns \cup KeyFns

\* the initial value handed to fold
FoldInit == 5

\* the arrays handed to zip as the other iterable
OtherArrays == {RunFrom(1, l) : l \in {0, 1, MaxLen}}

\* count arguments, the negative one included
CountArgs == (0 - 1)..MaxArg

(***************************************************************************)
(* Option (src/unnamed/part_005) and Result (src/src/result.ts).           *)
(***************************************************************************)
Some(v) == [some |-> TRUE, v |-> v]
None == [some |-> FALSE, v |-> 0]

\* what a call hands back to its caller
Ok(v) == [kind |-> "Ok", val |-> v, err |-> ""]
Err(e) == [kind |-> "Err", val |-> <<>>, err |-> e]
RetSome(v) == [kind |-> "Some", val |-> v, err |-> ""]
RetNone == [kind |-> "None", val |-> <<>>, err |-> ""]
Plain(v) == [kind |-> "Plain", val |-> v, err |-> ""]
Ref(o) == [kind |-> "Ref", val |-> o, err |-> ""]
Thrown(e) == [kind |-> "Throw", val |-> <<>>, err |-> e]
\* the generator object [Symbol.iterator]() hands out, and what its next()
\* and return() give: { value, done: false }, { done: true }
GenRef(g) == [kind |-> "Gen", val |-> g, err |-> ""]
IterValue(v) == [kind |-> "Value", val |-> v, err |-> ""]
IterDone == [kind |-> "Done", val |-> <<>>, err |-> ""]

(***************************************************************************)
(* User callbacks.                                                         *)
(***************************************************************************)
CbThrows(f, x) == f \in {"boomMap", "boomPred", "boomAdd", "boomKey"} /\ x = BoomVal

MapValue(f, x) == IF f = "inc" THEN x + 1 ELSE x

FilterValue(f, x) == IF f = "even" THEN x % 2 = 0 ELSE TRUE

FilterMapValue(f, x) == IF x % 2 = 0 THEN Some(x \div 2) ELSE None

ReduceValue(f, acc, x) == IF f = "sub" THEN acc - x ELSE acc + x

KeyValue(f, x) == IF f = "parity" THEN x % 2 ELSE x

(***************************************************************************)
(* Heap objects.                                                           *)
(***************************************************************************)
ArraySrc(a) == [kind |-> "array", arr |-> a, g |-> 0]
GenSrc(g) == [kind |-> "gen", arr |-> <<>>, g |-> g]

\* new LazyIterator(source); elem is the type parameter T the object is
\* used at: "int" for numbers, "pair" for the tuples zip yields
NewIter(src, elem) ==
    [source |-> src, operations |-> <<>>, reversed |-> FALSE, elem |-> elem]

Step(kind, fn, n) == [kind |-> kind, fn |-> fn, n |-> n, count |-> 0]

\* function* infiniteSequence of the tests: yields 1, 2, 3, ...
InfGen == [kind |-> "inf", status |-> "fresh", recv |-> 0, n |-> 0,
           count |-> 0, pos |-> 0, other |-> <<>>, opos |-> 0]

\* the generator object take(n) builds; its body has not started
TakeGen(o, n) == [kind |-> "take", status |-> "fresh", recv |-> o, n |-> n,
                  count |-> 0, pos |-> 0, other |-> <<>>, opos |-> 0]

\* the generator object zip(other) builds: pos and opos are where
\* selfIterator and otherIterator stand
ZipGen(o, other) == [kind |-> "zip", status |-> "fresh", recv |-> o, n |-> 0,
                     count |-> 0, pos |-> 0, other |-> other, opos |-> 0]

\* the generator object chunk(size) builds: pos is where its for-of loop
\* over the receiver stands
ChunkGen(o, size) == [kind |-> "chunk", status |-> "fresh", recv |-> o, n |-> size,
                      count |-> 0, pos |-> 0, other |-> <<>>, opos |-> 0]

\* the generator object this.evaluate() returns to a caller of
\* [Symbol.iterator](): pos is where its for-of loop over the source stands
EvalGen(o) == [kind |-> "eval", status |-> "fresh", recv |-> o, n |-> 0,
               count |-> 0, pos |-> 0, other |-> <<>>, opos |-> 0]

ZeroCalls == [f \in Callbacks |-> 0]

\* the machine an evaluation runs on
Machine == [heap |-> heap, gens |-> gens, calls |-> ZeroCalls, pulls |-> 0,
            opulls |-> 0, threw |-> FALSE]

\* the spy of callback f records one more invocation
Called(m, f) == [m EXCEPT !.calls[f] = @ + 1]

\* a callback raises
Raise(m) == [m EXCEPT !.threw = TRUE]

\* outcome of one next() on an iterator: st is "val", "done", "throw", "div"
Outcome(m, st, v) == [m |-> m, st |-> st, v |-> v]

\* K applied to the value v of a call: const v = ...; K(v)
Bind(v, K(_)) == K(v)

(***************************************************************************)
(* The steps of the operations array.                                      *)
(***************************************************************************)
StepResult(m, st, opt) == [m |-> m, st |-> st, opt |-> opt]

\* the closure map pushes: Option.some(fn(value))
MapStep(m, f, x) ==
    IF CbThrows(f, x) THEN StepResult(Raise(Called(m, f)), "throw", None)
    ELSE StepResult(Called(m, f), "ok", Some(MapValue(f, x)))

\* the closure filter pushes: fn(value) ? Option.some(value) : Option.none()
FilterStep(m, f, x) ==
    IF CbThrows(f, x) THEN StepResult(Raise(Called(m, f)), "throw", None)
    ELSE StepResult(Called(m, f), "ok", IF FilterValue(f, x) THEN Some(x) ELSE None)

\* filterMap pushes fn itself
FilterMapStep(m, f, x) == StepResult(Called(m, f), "ok", FilterMapValue(f, x))

\* the closure tap pushes: fn(value); return Option.some(value)
TapStep(m, f, x) == StepResult(Called(m, f), "ok", Some(x))

\* the skip closure comparing with <= : one element too many is dropped
SkipStepOffByOne(m, o, i, x) ==
    LET op == m.heap[o].operations[i] IN
    StepResult([m EXCEPT !.heap[o].operations[i].count = @ + 1], "ok",
               IF op.count <= op.n THEN None ELSE Some(x))

\* the closure skip pushes: count++ < n ? Option.none() : Option.some(value);
\* count is the closure's own variable, kept with the step at index i of o
SkipStep(m, o, i, x) ==
    LET op == m.heap[o].operations[i] IN
    StepResult([m EXCEPT !.heap[o].operations[i].count = @ + 1], "ok",
               IF op.count < op.n THEN None ELSE Some(x))

\* op(value) for the step at index i of object o
ApplyOp(m, o, i, x) ==
    LET op == m.heap[o].operations[i] IN
    CASE op.kind = "map" -> MapStep(m, op.fn, x)
      [] op.kind = "filter" -> FilterStep(m, op.fn, x)
      [] op.kind = "filterMap" -> FilterMapStep(m, op.fn, x)
      [] op.kind = "tap" -> TapStep(m, op.fn, x)
      [] op.kind = "skip" -> SkipStep(m, o, i, x)

\* the inner loop with a dropped element carried on to the later steps
RECURSIVE ThreadKeepsDropped(_, _, _, _)
ThreadKeepsDropped(m, o, i, x) ==
    IF i > Len(m.heap[o].operations) THEN StepResult(m, "ok", Some(x))
    ELSE Bind(ApplyOp(m, o, i, x), LAMBDA r :
         IF r.st = "throw" THEN r
         ELSE ThreadKeepsDropped(r.m, o, i + 1, IF r.opt.some THEN r.opt.v ELSE x))

\* the inner loop of evaluate and of take's generator, from step i on:
\*   current = current.andThen(op); if (current.isNone()) break;
RECURSIVE Thread(_, _, _, _)
Thread(m, o, i, x) ==
    IF i > Len(m.heap[o].operations) THEN StepResult(m, "ok", Some(x))
    ELSE Bind(ApplyOp(m, o, i, x), LAMBDA r :
         IF r.st = "throw" \/ ~r.opt.some THEN r
         ELSE Thread(r.m, o, i + 1, r.opt.v))

(***************************************************************************)
(* Iteration: sources, generators, evaluate.                               *)
(***************************************************************************)
RECURSIVE GenNext(_, _), TakeLoop(_, _), SourceNext(_, _, _), EvalNext(_, _, _)
RECURSIVE GenReturn(_, _), CloseSource(_, _)
RECURSIVE ChunkLoop(_, _, _), ChunkLoopDropsTail(_, _, _)

Pulled(m, st, v, pos) == [m |-> m, st |-> st, v |-> v, pos |-> pos]

\* iterator.return() as for-of calls it when its loop is left early; array
\* iterators have no return method
CloseSource(m, src) ==
    IF src.kind = "gen" THEN GenReturn(m, src.g) ELSE m

\* generator.return(): a generator suspended inside a for-of leaves that
\* loop, which closes the iterator the loop runs over
GenReturn(m, g) ==
    LET gen == m.gens[g] IN
    IF gen.status = "open" /\ gen.kind \in {"take", "chunk", "eval"}
    THEN [CloseSource(m, m.heap[gen.recv].source) EXCEPT !.gens[g].status = "done"]
    ELSE [m EXCEPT !.gens[g].status = "done"]

\* one next() on the iterator of a source; pos is the array iterator's index
SourceNext(m, src, pos) ==
    IF src.kind = "array"
    THEN IF pos < Len(src.arr)
         THEN Pulled([m EXCEPT !.pulls = @ + 1], "val", src.arr[pos + 1], pos + 1)
         ELSE Pulled(m, "done", 0, pos)
    ELSE Bind(GenNext(m, src.g), LAMBDA r : Pulled(r.m, r.st, r.v, pos))

\* the body of take's generator from the head of its for-of loop
TakeLoop(m, g) ==
    LET gen == m.gens[g]
        src == m.heap[gen.recv].source
    IN
    Bind(SourceNext(m, src, gen.pos), LAMBDA r :
    IF r.st # "val"
    THEN Outcome([r.m EXCEPT !.gens[g].status = "done"], r.st, 0)
    ELSE LET m1 == [r.m EXCEPT !.gens[g].pos = r.pos] IN
         IF gen.count = gen.n
         THEN Outcome([CloseSource(m1, src) EXCEPT !.gens[g].status = "done"],
                      "done", 0)
         ELSE Bind(Thread(m1, gen.recv, 1, r.v), LAMBDA t :
              IF t.st = "throw"
              THEN Outcome([CloseSource(t.m, src) EXCEPT !.gens[g].status = "done"],
                           "throw", 0)
              ELSE IF t.opt.some
              THEN Outcome([t.m EXCEPT !.gens[g].count = @ + 1], "val", t.opt.v)
              ELSE TakeLoop(t.m, g)))

\* function* infiniteSequence: yield i++ for ever
InfNext(m, g) ==
    LET gen == m.gens[g] IN
    IF m.pulls >= GenLimit THEN Outcome(m, "div", 0)
    ELSE Outcome([m EXCEPT !.gens[g].status = "open", !.gens[g].pos = @ + 1,
                           !.pulls = @ + 1], "val", gen.pos + 1)

\* otherIterator.next() handing out the elements of other from its end
OtherNextFromEnd(m, g) ==
    LET gen == m.gens[g] IN
    IF gen.opos < Len(gen.other)
    THEN Outcome([m EXCEPT !.gens[g].opos = @ + 1, !.opulls = @ + 1], "val",
                 gen.other[Len(gen.other) - gen.opos])
    ELSE Outcome(m, "done", 0)

\* otherIterator.next() of zip's generator, other being an array
OtherNext(m, g) ==
    LET gen == m.gens[g] IN
    IF gen.opos < Len(gen.other)
    THEN Outcome([m EXCEPT !.gens[g].opos = @ + 1, !.opulls = @ + 1], "val",
                 gen.other[gen.opos + 1])
    ELSE Outcome(m, "done", 0)

\* a round of zip's loop that advances the other iterable before the
\* receiver
ZipNextOtherFirst(m, g) ==
    LET gen == m.gens[g] IN
    Bind(OtherNext(m, g), LAMBDA otherNext :
    Bind(EvalNext(otherNext.m, gen.recv, gen.pos), LAMBDA selfNext :
    IF selfNext.st \in {"throw", "div"}
    THEN Outcome([selfNext.m EXCEPT !.gens[g].status = "done"], selfNext.st, 0)
    ELSE IF selfNext.st = "done" \/ otherNext.st = "done"
    THEN Outcome([selfNext.m EXCEPT !.gens[g].status = "done",
                                    !.gens[g].pos = selfNext.pos], "done", 0)
    ELSE Outcome([selfNext.m EXCEPT !.gens[g].pos = selfNext.pos], "val",
                 <<selfNext.v, otherNext.v>>)))

\* one round of the while (true) loop of zip's generator
ZipNext(m, g) ==
    LET gen == m.gens[g] IN
    Bind(EvalNext(m, gen.recv, gen.pos), LAMBDA selfNext :
    IF selfNext.st \in {"throw", "div"}
    THEN Outcome([selfNext.m EXCEPT !.gens[g].status = "done"], selfNext.st, 0)
    ELSE Bind(OtherNext([selfNext.m EXCEPT !.gens[g].pos = selfNext.pos], g),
              LAMBDA otherNext :
         IF selfNext.st = "done" \/ otherNext.st = "done"
         THEN Outcome([otherNext.m EXCEPT !.gens[g].status = "done"], "done", 0)
         ELSE Outcome(otherNext.m, "val", <<selfNext.v, otherNext.v>>)))

\* the body of chunk's generator with the short group at the end of the
\* receiver left out
ChunkLoopDropsTail(m, g, chunk) ==
    LET gen == m.gens[g] IN
    Bind(EvalNext(m, gen.recv, gen.pos), LAMBDA r :
    IF r.st # "val"
    THEN Outcome([r.m EXCEPT !.gens[g].status = "done"], r.st, 0)
    ELSE LET m1 == [r.m EXCEPT !.gens[g].pos = r.pos] IN
         IF Len(chunk) + 1 = gen.n THEN Outcome(m1, "val", Append(chunk, r.v))
         ELSE ChunkLoopDropsTail(m1, g, Append(chunk, r.v)))

\* the body of chunk's generator from the head of its for-of loop, chunk
\* being the group collected so far; at "last" the generator is suspended
\* at the yield that follows the loop
ChunkLoop(m, g, chunk) ==
    LET gen == m.gens[g] IN
    Bind(EvalNext(m, gen.recv, gen.pos), LAMBDA r :
    IF r.st \in {"throw", "div"}
    THEN Outcome([r.m EXCEPT !.gens[g].status = "done"], r.st, 0)
    ELSE IF r.st = "done"
    THEN IF Len(chunk) > 0
         THEN Outcome([r.m EXCEPT !.gens[g].status = "last"], "val", chunk)
         ELSE Outcome([r.m EXCEPT !.gens[g].status = "done"], "done", 0)
    ELSE LET m1 == [r.m EXCEPT !.gens[g].pos = r.pos] IN
         IF Len(chunk) + 1 = gen.n THEN Outcome(m1, "val", Append(chunk, r.v))
         ELSE ChunkLoop(m1, g, Append(chunk, r.v)))

\* generator.next()
GenNext(m, g) ==
    LET gen == m.gens[g] IN
    IF gen.status = "done" THEN Outcome(m, "done", 0)
    ELSE IF gen.status = "last"
    THEN Outcome([m EXCEPT !.gens[g].status = "done"], "done", 0)
    ELSE IF gen.kind = "inf" THEN InfNext(m, g)
    ELSE IF gen.kind = "take" THEN TakeLoop([m EXCEPT !.gens[g].status = "open"], g)
    ELSE IF gen.kind = "chunk"
    THEN ChunkLoop([m EXCEPT !.gens[g].status = "open"], g, <<>>)
    ELSE ZipNext([m EXCEPT !.gens[g].status = "open"], g)

\* one next() on the generator evaluate() returns, its source iterator at pos
EvalNext(m, o, pos) ==
    LET src == m.heap[o].source IN
    Bind(SourceNext(m, src, pos), LAMBDA r :
    IF r.st # "val" THEN r
    ELSE Bind(Thread(r.m, o, 1, r.v), LAMBDA t :
         IF t.st = "throw" THEN Pulled(CloseSource(t.m, src), "throw", 0, r.pos)
         ELSE IF t.opt.some THEN Pulled(t.m, "val", t.opt.v, r.pos)
         ELSE EvalNext(t.m, o, r.pos)))

\* Array.from(this.evaluate()): run the generator to its end
RECURSIVE Drain(_, _, _, _)
Drain(m, o, pos, acc) ==
    Bind(EvalNext(m, o, pos), LAMBDA r :
    IF r.st = "val" THEN Drain(r.m, o, r.pos, Append(acc, r.v))
    ELSE [m |-> r.m, st |-> r.st, out |-> acc])

\* Array.prototype.reverse
Reversed(s) == [i \in 1..Len(s) |-> s[Len(s) + 1 - i]]

(***************************************************************************)
(* The methods of LazyIterator: each yields the machine after the call and *)
(* what the call returned.                                                 *)
(***************************************************************************)
Returned(m, ret) == [m |-> m, ret |-> ret]

\* an exception that reaches the caller: the one a callback raised, or no
\* return at all when the evaluation runs for ever
Raised(st) == IF st = "div" THEN Thrown("diverges") ELSE Thrown("boom")

PushStep(m, o, step) == [m EXCEPT !.heap[o].operations = Append(@, step)]

\* map as an eager transformation: the new step is run over the source at once
mapEager(m, o, f) ==
    Returned(Drain(PushStep(m, o, Step("map", f, 0)), o, 0, <<>>).m, Ref(o))

map(m, o, f) == Returned(PushStep(m, o, Step("map", f, 0)), Ref(o))

filter(m, o, f) == Returned(PushStep(m, o, Step("filter", f, 0)), Ref(o))

filterMap(m, o, f) == Returned(PushStep(m, o, Step("filterMap", f, 0)), Ref(o))

tap(m, o, f) == Returned(PushStep(m, o, Step("tap", f, 0)), Ref(o))

debug(m, o, prefix) == tap(m, o, prefix)

skip(m, o, n) == Returned(PushStep(m, o, Step("skip", "", n)), Ref(o))

\* reverse that returns the receiver with its flag as it was
reverseKeepsFlag(m, o) == Returned(m, Ref(o))

reverse(m, o) == Returned([m EXCEPT !.heap[o].reversed = ~@], Ref(o))

\* take handing the receiver's reverse flag on to the sequence it builds
takeKeepsFlag(m, o, n) ==
    IF n <= 0
    THEN Returned([m EXCEPT !.heap = Append(@, NewIter(ArraySrc(<<>>), m.heap[o].elem))],
                  Ref(Len(m.heap) + 1))
    ELSE Returned([m EXCEPT !.gens = Append(@, TakeGen(o, n)),
                            !.heap = Append(@, [NewIter(GenSrc(Len(m.gens) + 1),
                                                        m.heap[o].elem)
                                                EXCEPT !.reversed = m.heap[o].reversed])],
                  Ref(Len(m.heap) + 1))

take(m, o, n) ==
    IF n <= 0
    THEN Returned([m EXCEPT !.heap = Append(@, NewIter(ArraySrc(<<>>), m.heap[o].elem))],
                  Ref(Len(m.heap) + 1))
    ELSE Returned([m EXCEPT !.gens = Append(@, TakeGen(o, n)),
                            !.heap = Append(@, NewIter(GenSrc(Len(m.gens) + 1),
                                                       m.heap[o].elem))],
                  Ref(Len(m.heap) + 1))

\* chunk without the test of its argument
chunkNoCheck(m, o, size) ==
    Returned([m EXCEPT !.gens = Append(@, ChunkGen(o, size)),
                       !.heap = Append(@, NewIter(GenSrc(Len(m.gens) + 1), "chunk"))],
             Ok(Len(m.heap) + 1))

chunk(m, o, size) ==
    IF size <= 0 THEN Returned(m, Err("IterNegativeNumberError"))
    ELSE Returned([m EXCEPT !.gens = Append(@, ChunkGen(o, size)),
                            !.heap = Append(@, NewIter(GenSrc(Len(m.gens) + 1),
                                                       "chunk"))],
                  Ok(Len(m.heap) + 1))

zip(m, o, other) ==
    Returned([m EXCEPT !.gens = Append(@, ZipGen(o, other)),
                       !.heap = Append(@, NewIter(GenSrc(Len(m.gens) + 1), "pair"))],
             Ref(Len(m.heap) + 1))

\* collect over a source that can be traversed once only: an array source
\* is left exhausted
collectOnce(m, o) ==
    Bind(Drain(m, o, 0, <<>>), LAMBDA d :
    LET m1 == IF m.heap[o].source.kind = "array"
              THEN [d.m EXCEPT !.heap[o].source = ArraySrc(<<>>)] ELSE d.m
    IN
    IF d.st = "div" THEN Returned(m1, Raised(d.st))
    ELSE IF d.st = "throw" THEN Returned(m1, Err("IterCollectError"))
    ELSE Returned(m1, Ok(IF m.heap[o].reversed THEN Reversed(d.out) ELSE d.out)))

collect(m, o) ==
    Bind(Drain(m, o, 0, <<>>), LAMBDA d :
    IF d.st = "div" THEN Returned(d.m, Raised(d.st))
    ELSE IF d.st = "throw" THEN Returned(d.m, Err("IterCollectError"))
    ELSE Returned(d.m, Ok(IF m.heap[o].reversed THEN Reversed(d.out) ELSE d.out)))

\* [Symbol.iterator](): a new generator of evaluate(), its body not started
iterator(m, o) ==
    Returned([m EXCEPT !.gens = Append(@, EvalGen(o))], GenRef(Len(m.gens) + 1))

\* next() on a generator of evaluate() the caller holds; an exception of a
\* step leaves the generator finished and reaches the caller
IteratorNext(m, g) ==
    LET gen == m.gens[g] IN
    IF gen.status = "done" THEN Returned(m, IterDone)
    ELSE Bind(EvalNext([m EXCEPT !.gens[g].status = "open"], gen.recv, gen.pos),
              LAMBDA r :
         IF r.st = "val"
         THEN Returned([r.m EXCEPT !.gens[g].pos = r.pos], IterValue(r.v))
         ELSE IF r.st = "done"
         THEN Returned([r.m EXCEPT !.gens[g].status = "done"], IterDone)
         ELSE Returned([r.m EXCEPT !.gens[g].status = "done"], Raised(r.st)))

\* return() on a generator of evaluate() the caller holds, as a for-of loop
\* calls it when it is left early
IteratorReturn(m, g) == Returned(GenReturn(m, g), IterDone)

\* the object take(1) built inside nth is unreachable once nth returns
Forget(m, nheap, ngens) ==
    [m EXCEPT !.heap = SubSeq(@, 1, nheap), !.gens = SubSeq(@, 1, ngens)]

nth(m, o, n) ==
    Bind(skip(m, o, n), LAMBDA s :
    Bind(take(s.m, s.ret.val, 1), LAMBDA t :
    Bind(collect(t.m, t.ret.val), LAMBDA c :
    LET m1 == Forget(c.m, Len(m.heap), Len(m.gens))
        \* collect().ok() is None on Err; unwrapOr([])
        valueArr == IF c.ret.kind = "Ok" THEN c.ret.val ELSE <<>>
    IN
    IF c.ret.kind = "Throw" THEN Returned(m1, c.ret)
    ELSE IF Len(valueArr) > 0 THEN Returned(m1, RetSome(valueArr[1]))
    ELSE Returned(m1, RetNone))))

\* return() on the suspended generator of evaluate(), as a for-of loop
\* calls it when its body returns or throws
EvalReturn(m, o) == CloseSource(m, m.heap[o].source)

Found(m, st, v, idx) == [m |-> m, st |-> st, v |-> v, idx |-> idx]

\* the search loops without their early return: the first hit is kept and
\* the sequence is run to its end
RECURSIVE SearchLoopToEnd(_, _, _, _, _, _)
SearchLoopToEnd(m, o, pos, f, want, idx) ==
    Bind(EvalNext(m, o, pos), LAMBDA r :
    IF r.st # "val"
    THEN [m |-> r.m, st |-> IF r.st = "done" THEN "miss" ELSE r.st, v |-> 0, idx |-> idx]
    ELSE IF CbThrows(f, r.v)
    THEN [m |-> CloseSource(Raise(Called(r.m, f)), r.m.heap[o].source),
          st |-> "throw", v |-> 0, idx |-> idx]
    ELSE IF FilterValue(f, r.v) = want
    THEN [m |-> Drain(Called(r.m, f), o, r.pos, <<>>).m, st |-> "hit", v |-> r.v,
          idx |-> idx]
    ELSE SearchLoopToEnd(Called(r.m, f), o, r.pos, f, want, idx + 1))

\* the for-of loops of find, position and all: leave at the first element
\* on which the predicate's value is want
RECURSIVE SearchLoop(_, _, _, _, _, _)
SearchLoop(m, o, pos, f, want, idx) ==
    Bind(EvalNext(m, o, pos), LAMBDA r :
    IF r.st # "val"
    THEN Found(r.m, IF r.st = "done" THEN "miss" ELSE r.st, 0, idx)
    ELSE IF CbThrows(f, r.v)
    THEN Found(EvalReturn(Raise(Called(r.m, f)), o), "throw", 0, idx)
    ELSE IF FilterValue(f, r.v) = want
    THEN Found(EvalReturn(Called(r.m, f), o), "hit", r.v, idx)
    ELSE SearchLoop(Called(r.m, f), o, r.pos, f, want, idx + 1))

find(m, o, f) ==
    Bind(SearchLoop(m, o, 0, f, TRUE, 0), LAMBDA s :
    IF s.st \in {"throw", "div"} THEN Returned(s.m, Raised(s.st))
    ELSE IF s.st = "hit" THEN Returned(s.m, RetSome(s.v))
    ELSE Returned(s.m, RetNone))

position(m, o, f) ==
    Bind(SearchLoop(m, o, 0, f, TRUE, 0), LAMBDA s :
    IF s.st \in {"throw", "div"} THEN Returned(s.m, Raised(s.st))
    ELSE IF s.st = "hit" THEN Returned(s.m, RetSome(s.idx))
    ELSE Returned(s.m, RetNone))

\* this.find(predicate).isSome()
some(m, o, f) ==
    Bind(find(m, o, f), LAMBDA r :
    IF r.ret.kind = "Throw" THEN r ELSE Returned(r.m, Plain(r.ret.kind = "Some")))

all(m, o, f) ==
    Bind(SearchLoop(m, o, 0, f, FALSE, 0), LAMBDA s :
    IF s.st \in {"throw", "div"} THEN Returned(s.m, Raised(s.st))
    ELSE Returned(s.m, Plain(s.st = "miss")))

\* the reducer called with its arguments exchanged: fn(next.value, result)
ReduceCallFlipped(m, f, acc, x) ==
    IF f = "curr" THEN [m |-> m, st |-> "ok", v |-> acc]
    ELSE IF CbThrows(f, x) THEN [m |-> Raise(Called(m, f)), st |-> "throw", v |-> acc]
    ELSE [m |-> Called(m, f), st |-> "ok", v |-> ReduceValue(f, x, acc)]

\* fn(result, next.value): "curr" is last()'s own (_, curr) => curr
ReduceCall(m, f, acc, x) ==
    IF f = "curr" THEN [m |-> m, st |-> "ok", v |-> x]
    ELSE IF CbThrows(f, x) THEN [m |-> Raise(Called(m, f)), st |-> "throw", v |-> acc]
    ELSE [m |-> Called(m, f), st |-> "ok", v |-> ReduceValue(f, acc, x)]

\* the while (true) loop of reduce: next() by hand, no for-of around it
RECURSIVE ReduceLoop(_, _, _, _, _)
ReduceLoop(m, o, pos, f, acc) ==
    Bind(EvalNext(m, o, pos), LAMBDA r :
    IF r.st # "val" THEN [m |-> r.m, st |-> r.st, v |-> acc]
    ELSE Bind(ReduceCall(r.m, f, acc, r.v), LAMBDA c :
         IF c.st = "throw" THEN c
         ELSE ReduceLoop(c.m, o, r.pos, f, c.v)))

reduce(m, o, f) ==
    Bind(EvalNext(m, o, 0), LAMBDA first :
    IF first.st = "done" THEN Returned(first.m, RetNone)
    ELSE IF first.st # "val" THEN Returned(first.m, Raised(first.st))
    ELSE Bind(ReduceLoop(first.m, o, first.pos, f, first.v), LAMBDA l :
         IF l.st \in {"throw", "div"} THEN Returned(l.m, Raised(l.st))
         ELSE Returned(l.m, RetSome(l.v))))

\* this.reduce((_, curr) => curr)
lastElem(m, o) == reduce(m, o, "curr")

count(m, o) ==
    Bind(Drain(m, o, 0, <<>>), LAMBDA d :
    IF d.st \in {"throw", "div"} THEN Returned(d.m, Raised(d.st))
    ELSE Returned(d.m, Plain(Len(d.out))))

\* the for-of loop of fold
RECURSIVE FoldLoop(_, _, _, _, _)
FoldLoop(m, o, pos, f, acc) ==
    Bind(EvalNext(m, o, pos), LAMBDA r :
    IF r.st # "val" THEN [m |-> r.m, st |-> r.st, v |-> acc]
    ELSE Bind(ReduceCall(r.m, f, acc, r.v), LAMBDA c :
         IF c.st = "throw" THEN [m |-> EvalReturn(c.m, o), st |-> "throw", v |-> acc]
         ELSE FoldLoop(c.m, o, r.pos, f, c.v)))

\* fold without its try / catch
foldNoCatch(m, o, f, initial) ==
    Bind(FoldLoop(m, o, 0, f, initial), LAMBDA l :
    IF l.st \in {"throw", "div"} THEN Returned(l.m, Raised(l.st))
    ELSE Returned(l.m, Ok(l.v)))

fold(m, o, f, initial) ==
    Bind(FoldLoop(m, o, 0, f, initial), LAMBDA l :
    IF l.st = "div" THEN Returned(l.m, Raised(l.st))
    ELSE IF l.st = "throw" THEN Returned(l.m, Err("IterFoldError"))
    ELSE Returned(l.m, Ok(l.v)))

\* a Map that puts a new key in front of the keys it holds
GroupAddInFront(groups, key, x) ==
    IF \E i \in 1..Len(groups) : groups[i].key = key
    THEN [i \in 1..Len(groups) |->
            IF groups[i].key = key
            THEN [groups[i] EXCEPT !.items = Append(@, x)] ELSE groups[i]]
    ELSE <<[key |-> key, items |-> <<x>>]>> \o groups

\* groups.get(key) ?? [], push, groups.set(key, group): a Map keeps its keys
\* in insertion order
GroupAdd(groups, key, x) ==
    IF \E i \in 1..Len(groups) : groups[i].key = key
    THEN [i \in 1..Len(groups) |->
            IF groups[i].key = key
            THEN [groups[i] EXCEPT !.items = Append(@, x)] ELSE groups[i]]
    ELSE Append(groups, [key |-> key, items |-> <<x>>])

\* the for-of loop of groupBy
RECURSIVE GroupLoop(_, _, _, _, _)
GroupLoop(m, o, pos, f, groups) ==
    Bind(EvalNext(m, o, pos), LAMBDA r :
    IF r.st # "val" THEN [m |-> r.m, st |-> r.st, v |-> groups]
    ELSE IF CbThrows(f, r.v)
    THEN [m |-> EvalReturn(Raise(Called(r.m, f)), o), st |-> "throw", v |-> groups]
    ELSE GroupLoop(Called(r.m, f), o, r.pos, f, GroupAdd(groups, KeyValue(f, r.v), r.v)))

groupBy(m, o, f) ==
    Bind(GroupLoop(m, o, 0, f, <<>>), LAMBDA l :
    IF l.st = "div" THEN Returned(l.m, Raised(l.st))
    ELSE IF l.st = "throw" THEN Returned(l.m, Err("IterGroupByError"))
    ELSE Returned(l.m, Ok(l.v)))

\* whether Array.prototype.sort raises: any sort of two or more elements
\* hands each of them to compareFn, and boomCmp raises on BoomVal
SortThrows(f, s) ==
    f = "boomCmp" /\ Len(s) >= 2 /\ \E i \in 1..Len(s) : s[i] = BoomVal

\* a sort that leaves the elements where they are
Unsorted(s) == s

\* [...this].sort(compareFn), compareFn being (a, b) => a - b
Sorted(s) == SortSeq(s, LAMBDA a, b : a < b)

sortBy(m, o, f) ==
    Bind(Drain(m, o, 0, <<>>), LAMBDA d :
    IF d.st = "div" THEN Returned(d.m, Raised(d.st))
    ELSE IF d.st = "throw" THEN Returned(d.m, Err("IterSortByError"))
    ELSE IF SortThrows(f, d.out) THEN Returned(Raise(d.m), Err("IterSortByError"))
    ELSE Returned([d.m EXCEPT !.heap = Append(@, NewIter(ArraySrc(Sorted(d.out)),
                                                          m.heap[o].elem))],
                  Ok(Len(d.m.heap) + 1)))

\* unzip with the two components exchanged
unzipSwapped(m, o) ==
    Bind(Drain(m, o, 0, <<>>), LAMBDA d :
    IF d.st = "div" THEN Returned(d.m, Raised(d.st))
    ELSE IF d.st = "throw" THEN Returned(d.m, Err("IterUnzipError"))
    ELSE Returned(d.m, Ok(<<[i \in 1..Len(d.out) |-> d.out[i][2]],
                            [i \in 1..Len(d.out) |-> d.out[i][1]]>>)))

\* for (const [a, b] of this) { first.push(a); second.push(b); }
unzip(m, o) ==
    Bind(Drain(m, o, 0, <<>>), LAMBDA d :
    IF d.st = "div" THEN Returned(d.m, Raised(d.st))
    ELSE IF d.st = "throw" THEN Returned(d.m, Err("IterUnzipError"))
    ELSE Returned(d.m, Ok(<<[i \in 1..Len(d.out) |-> d.out[i][1]],
                            [i \in 1..Len(d.out) |-> d.out[i][2]]>>)))

(***************************************************************************)
(* Option and Result over values that may be null or undefined             *)
(* (src/unnamed/part_005 is option.ts, src/src/result.ts lines 1-540),     *)
(* and the evaluation of a LazyIterator over such values.  The state is    *)
(* the last call made and the Option or Result it returned.                *)
(***************************************************************************)
\* numbers 1..MaxNum stand for the values that are not null or undefined
MaxNum == 3
\* longest source array of nullable elements
MaxAnyLen == 2

\* a JavaScript value: its type, its number and its text
JsNull == [t |-> "null", v |-> 0, s |-> ""]
JsUndefined == [t |-> "undefined", v |-> 0, s |-> ""]
JsNum(n) == [t |-> "number", v |-> n, s |-> ""]
JsNaN == [t |-> "NaN", v |-> 0, s |-> ""]
JsString(text) == [t |-> "string", v |-> 0, s |-> text]
\* new Error(message)
JsError(message) == [t |-> "Error", v |-> 0, s |-> message]
\* the field of an object that holds no value
Nothing == [t |-> "nothing", v |-> 0, s |-> ""]

NonNullValues == {JsNum(n) : n \in 1..MaxNum}
AnyValues == {JsNull, JsUndefined} \cup NonNullValues

isNullable(value) == value = JsNull \/ value = JsUndefined
isNonNullable(value) == ~isNullable(value)

\* new Some(value), new None(), new Ok(value), new Err(error)
OptionSome(value) == [tag |-> "Some", value |-> value, error |-> Nothing]
OptionNone == [tag |-> "None", value |-> Nothing, error |-> Nothing]
ResultOk(value) == [tag |-> "Ok", value |-> value, error |-> Nothing]
ResultErr(error) == [tag |-> "Err", value |-> Nothing, error |-> error]

OptionFromNullable(value) ==
    IF isNonNullable(value) THEN OptionSome(value) ELSE OptionNone

\* the functions handed to Option.map and to the map step of a sequence
AnyMapFns == {"same", "one", "toNull", "toUndefined"}
\* those whose result type is NonNullable, as the signature of Option.map
\* demands
NonNullMapFns == {"one"}
AnyFilterFns == {"always", "isNumber"}

AnyMapValue(fn, value) ==
    CASE fn = "same" -> value
      [] fn = "one" -> JsNum(1)
      [] fn = "toNull" -> JsNull
      [] fn = "toUndefined" -> JsUndefined

AnyFilterValue(fn, value) ==
    CASE fn = "always" -> TRUE
      [] fn = "isNumber" -> value.t = "number"

\* Some.map, None.map
OptionMap(o, fn) ==
    IF o.tag = "Some" THEN OptionSome(AnyMapValue(fn, o.value)) ELSE OptionNone

\* okOr that wraps its argument whatever the receiver
okOrDefault(o, defaultValue) ==
    IF o.tag = "Some" THEN ResultOk(defaultValue) ELSE ResultErr(defaultValue)

\* Some.okOr, None.okOr
okOr(o, defaultValue) ==
    IF o.tag = "Some" THEN ResultOk(o.value) ELSE ResultErr(defaultValue)

\* Ok.ok, Err.ok
ResultToOk(r) == IF r.tag = "Ok" THEN OptionFromNullable(r.value) ELSE OptionNone

\* Ok.err, Err.err
ResultToErr(r) == IF r.tag = "Ok" THEN OptionNone ELSE OptionFromNullable(r.error)

\* the closures that map, filter and tap push onto this.operations
AnyStep(kind, fn) == [kind |-> kind, fn |-> fn]

AnyOp(step, value) ==
    CASE step.kind = "map" -> OptionSome(AnyMapValue(step.fn, value))
      [] step.kind = "filter" ->
             IF AnyFilterValue(step.fn, value) THEN OptionSome(value) ELSE OptionNone
      [] step.kind = "tap" -> OptionSome(value)

AnyStepLists ==
    {<<>>} \cup {<<AnyStep("map", f)>> : f \in AnyMapFns}
           \cup {<<AnyStep("filter", f)>> : f \in AnyFilterFns}
           \cup {<<AnyStep("tap", "spy")>>}

AnyArrays == UNION {[1..l -> AnyValues] : l \in 0..MaxAnyLen}

\* the inner loop of evaluate: current = current.andThen(op) from step i on
RECURSIVE AnyThread(_, _, _)
AnyThread(ops, i, current) ==
    IF i > Len(ops) \/ current.tag = "None" THEN current
    ELSE AnyThread(ops, i + 1, AnyOp(ops[i], current.value))

\* the values evaluate yields over the elements of source from index k on
RECURSIVE AnyEvaluate(_, _, _)
AnyEvaluate(source, ops, k) ==
    IF k > Len(source) THEN <<>>
    ELSE Bind(AnyThread(ops, 1, OptionSome(source[k])), LAMBDA current :
         (IF current.tag = "Some" THEN <<current.value>> ELSE <<>>)
             \o AnyEvaluate(source, ops, k + 1))

\* find with a predicate that accepts every element
AnyFind(source, ops) ==
    Bind(AnyEvaluate(source, ops, 1), LAMBDA ys :
    IF ys = <<>> THEN OptionNone ELSE OptionSome(ys[1]))

\* last: reduce((_, curr) => curr)
AnyLast(source, ops) ==
    Bind(AnyEvaluate(source, ops, 1), LAMBDA ys :
    IF ys = <<>> THEN OptionNone ELSE OptionSome(ys[Len(ys)]))

\* nth(0): the array collect returned, through ok() and unwrapOr([])
AnyNth(source, ops) ==
    Bind(AnyEvaluate(source, ops, 1), LAMBDA ys :
    Bind(ResultOk(SubSeq(ys, 1, IF Len(ys) > 0 THEN 1 ELSE 0)), LAMBDA r :
    IF Len(r.value) > 0 THEN OptionSome(r.value[1]) ELSE OptionNone))

OptCall(op, in, arg, source, ops, out) ==
    [op |-> op, in |-> in, arg |-> arg, source |-> source, ops |-> ops, out |-> out]

NoOptCall == OptCall("", OptionNone, Nothing, <<>>, <<>>, OptionNone)

(***************************************************************************)
(* The state machine.                                                      *)
(***************************************************************************)
NoCall == [op |-> "from", recv |-> 0, fn |-> "", n |-> 0, ret |-> Ref(1),
           calls |-> ZeroCalls, pulls |-> 0, opulls |-> 0, threw |-> FALSE,
           ops |-> <<>>, rev |-> FALSE]

\* Iterator.from(source), over an array or over the endless generator
Init ==
    /\ \/ \E a \in Arrays : heap = <<NewIter(ArraySrc(a), "int")>> /\ gens = <<>>
       \/ heap = <<NewIter(GenSrc(1), "int")>> /\ gens = <<InfGen>>
    /\ last = NoCall
    /\ ncalls = 0
    /\ ocall = NoOptCall /\ pline = Idle /\ scope = Idle

Objects == 1..Len(heap)

\* the caller makes the call and observes its outcome; a call whose
\* evaluation never ends has no outcome
Call(op, o, fn, n, r) ==
    /\ ncalls < MaxCalls
    /\ ~(r.ret.kind = "Throw" /\ r.ret.err = "diverges")
    /\ heap' = r.m.heap
    /\ gens' = r.m.gens
    /\ last' = [op |-> op, recv |-> o, fn |-> fn, n |-> n, ret |-> r.ret,
                calls |-> r.m.calls, pulls |-> r.m.pulls, opulls |-> r.m.opulls,
                threw |-> r.m.threw,
                ops |-> heap[o].operations, rev |-> heap[o].reversed]
    /\ ncalls' = ncalls + 1
    /\ UNCHANGED notIter

\* the objects whose elements are numbers, pairs
Ints == {o \in Objects : heap[o].elem = "int"}
Pairs == {o \in Objects : heap[o].elem = "pair"}

Map == \E o \in Ints, f \in MapFns : Call("map", o, f, 0, map(Machine, o, f))

Filter == \E o \in Ints, f \in FilterFns :
    Call("filter", o, f, 0, filter(Machine, o, f))

FilterMap == \E o \in Ints, f \in FilterMapFns :
    Call("filterMap", o, f, 0, filterMap(Machine, o, f))

Tap == \E o \in Objects, f \in TapFns : Call("tap", o, f, 0, tap(Machine, o, f))

Debug == \E o \in Objects, prefix \in DebugPrefixes :
    Call("debug", o, prefix, 0, debug(Machine, o, prefix))

\* the generators of evaluate() handed out to the caller
Iterators == {g \in 1..Len(gens) : gens[g].kind = "eval"}

SymbolIterator == \E o \in Objects : Call("iterator", o, "", 0, iterator(Machine, o))

IterNext == \E g \in Iterators :
    Call("next", gens[g].recv, "", g, IteratorNext(Machine, g))

IterReturn == \E g \in Iterators :
    Call("return", gens[g].recv, "", g, IteratorReturn(Machine, g))

Skip == \E o \in Objects, n \in CountArgs :
    Call("skip", o, "", n, skip(Machine, o, n))

Reverse == \E o \in Objects : Call("reverse", o, "", 0, reverse(Machine, o))

Take == \E o \in Objects, n \in CountArgs :
    Call("take", o, "", n, take(Machine, o, n))

Chunk == \E o \in Ints, size \in CountArgs :
    Call("chunk", o, "", size, chunk(Machine, o, size))

Collect == \E o \in Objects : Call("collect", o, "", 0, collect(Machine, o))

Nth == \E o \in Objects, n \in CountArgs :
    Call("nth", o, "", n, nth(Machine, o, n))

Zip == \E o \in Ints, other \in OtherArrays :
    Call("zip", o, "", 0, zip(Machine, o, other))

Find == \E o \in Ints, f \in FilterFns : Call("find", o, f, 0, find(Machine, o, f))

Position == \E o \in Ints, f \in FilterFns :
    Call("position", o, f, 0, position(Machine, o, f))

SomeOf == \E o \in Ints, f \in FilterFns : Call("some", o, f, 0, some(Machine, o, f))

All == \E o \in Ints, f \in FilterFns : Call("all", o, f, 0, all(Machine, o, f))

Reduce == \E o \in Ints, f \in ReduceFns :
    Call("reduce", o, f, 0, reduce(Machine, o, f))

Last == \E o \in Objects : Call("last", o, "", 0, lastElem(Machine, o))

Count == \E o \in Objects : Call("count", o, "", 0, count(Machine, o))

Fold == \E o \in Ints, f \in ReduceFns :
    Call("fold", o, f, FoldInit, fold(Machine, o, f, FoldInit))

GroupBy == \E o \in Ints, f \in KeyFns :
    Call("groupBy", o, f, 0, groupBy(Machine, o, f))

SortBy == \E o \in Ints, f \in CompareFns :
    Call("sortBy", o, f, 0, sortBy(Machine, o, f))

Unzip == \E o \in Pairs : Call("unzip", o, "", 0, unzip(Machine, o))

Next ==
    \/ Map \/ Filter \/ FilterMap \/ Tap \/ Debug \/ Skip \/ Reverse \/ Take \/ Zip \/ Chunk
    \/ SymbolIterator \/ IterNext \/ IterReturn
    \/ Collect \/ Nth \/ Find \/ Position \/ SomeOf \/ All \/ Reduce \/ Last
    \/ Count \/ Fold \/ GroupBy \/ SortBy \/ Unzip

Spec == Init /\ [][Next]_vars

(***************************************************************************)
(* Reference semantics the claims are stated against: a step list applied  *)
(* to one element at a time, written without generators or heap.           *)
(***************************************************************************)
StepOps == {"map", "filter", "filterMap", "tap", "skip"}
PerElementOps == {"map", "filter", "filterMap", "tap"}
TerminalOps == {"collect", "nth", "find", "position", "some", "all", "reduce",
                "last", "count", "fold", "groupBy", "sortBy", "unzip"}

\* a step list without the counters of its skip closures
StepList(ops) == [i \in 1..Len(ops) |-> [kind |-> ops[i].kind, fn |-> ops[i].fn,
                                          n |-> ops[i].n]]

PerElementOnly(ops) == \A i \in 1..Len(ops) : ops[i].kind \in PerElementOps

\* what a per-element step makes of x
RefStep(op, x) ==
    CASE op.kind = "map" -> Some(MapValue(op.fn, x))
      [] op.kind = "filter" -> IF FilterValue(op.fn, x) THEN Some(x) ELSE None
      [] op.kind = "filterMap" -> FilterMapValue(op.fn, x)
      [] op.kind = "tap" -> Some(x)

\* the value of source element x as it arrives at step i, Absent if an
\* earlier step dropped it
RECURSIVE RefValueAt(_, _, _)
RefValueAt(ops, i, x) ==
    IF i = 1 THEN Some(x)
    ELSE LET p == RefValueAt(ops, i - 1, x) IN
         IF p.some THEN RefStep(ops[i - 1], p.v) ELSE None

RefThread(ops, x) == RefValueAt(ops, Len(ops) + 1, x)

\* the elements of a from index k on, threaded through ops one at a time
RECURSIVE RefCollectFrom(_, _, _)
RefCollectFrom(a, ops, k) ==
    IF k > Len(a) THEN <<>>
    ELSE LET r == RefThread(ops, a[k]) IN
         (IF r.some THEN <<r.v>> ELSE <<>>) \o RefCollectFrom(a, ops, k + 1)

RefCollect(a, ops) == RefCollectFrom(a, ops, 1)

\* how often callback f is invoked: once per element arriving at a step of f
RefCalls(a, ops, f) ==
    Cardinality({ki \in (1..Len(a)) \X (1..Len(ops)) :
                    ops[ki[2]].fn = f /\ RefValueAt(ops, ki[2], a[ki[1]]).some})

\* some callback raises on an element that arrives at it
RefRaises(a, ops) ==
    \E k \in 1..Len(a), i \in 1..Len(ops) :
        LET p == RefValueAt(ops, i, a[k]) IN p.some /\ CbThrows(ops[i].fn, p.v)

Occurrences(ops, f) == Cardinality({i \in 1..Len(ops) : ops[i].fn = f})

\* a[n..] and a[..n)
Drop(a, n) == SubSeq(a, n + 1, Len(a))
FirstN(a, n) == SubSeq(a, 1, IF n < Len(a) THEN n ELSE Len(a))

OnArray(o) == heap[o].source.kind = "array"
ArrayOf(o) == heap[o].source.arr

(***************************************************************************)
(* Claims.                                                                 *)
(***************************************************************************)

\* C1: Iterator.from and the step-registering calls (map, filter, filterMap,
\* tap, skip) invoke no callback and pull no element; and while collect
\* evaluates a sequence over an array, a callback runs at most once per
\* registration and pulled element.
C1_Laziness ==
    /\ last.op \in StepOps \cup {"from"} =>
           last.calls = ZeroCalls /\ last.pulls = 0 /\ last.opulls = 0
    /\ (last.op = "collect" /\ OnArray(last.recv)) =>
           \A f \in Callbacks :
               last.calls[f] <= Occurrences(last.ops, f) * last.pulls

\* a collect that ran two registered callbacks once per element
C1_Witness ==
    /\ last.op = "collect" /\ OnArray(last.recv) /\ Len(last.ops) = 2
    /\ last.ops[1].kind = "map" /\ last.ops[2].kind = "filter"
    /\ last.pulls = MaxLen
    /\ last.calls[last.ops[1].fn] = MaxLen /\ last.calls[last.ops[2].fn] = MaxLen

\* C2: map, filter, filterMap, skip and tap return a new sequence value and
\* leave the receiver's step list unchanged.
C2_ValueSemantics ==
    last.op \in StepOps =>
        /\ last.ret.val # last.recv
        /\ StepList(heap[last.recv].operations) = StepList(last.ops)

\* C3: collect over a finite collection and a chain of map / filter /
\* filterMap / tap steps returns Success of the elements threaded one at a
\* time through the steps in registration order, an element being dropped at
\* the first step that yields Absent without reaching a later step; with no
\* step the result is the collection itself.
C3_Fusion ==
    (/\ last.op = "collect" /\ OnArray(last.recv) /\ ~last.rev
     /\ PerElementOnly(last.ops)
     /\ ~RefRaises(ArrayOf(last.recv), last.ops)) =>
        /\ last.ret = Ok(RefCollect(ArrayOf(last.recv), last.ops))
        /\ \A f \in Callbacks :
               last.calls[f] = RefCalls(ArrayOf(last.recv), last.ops, f)
        /\ last.ops = <<>> => last.ret = Ok(ArrayOf(last.recv))

\* a collect whose first step dropped an element the second never saw
C3_Witness ==
    /\ last.op = "collect" /\ OnArray(last.recv) /\ ~last.rev
    /\ Len(last.ops) = 2 /\ last.ops[1].kind = "filter" /\ last.ops[2].kind = "map"
    /\ last.ret.kind = "Ok" /\ Len(last.ret.val) = 1
    /\ last.calls[last.ops[1].fn] = MaxLen /\ last.calls[last.ops[2].fn] = 1

\* the generator behind a sequence take(n), n > 0, built
TakeGenOf(o) == gens[heap[o].source.g]

\* o is a sequence take(n) returned, not evaluated yet and without steps of
\* its own
FreshTake(o) ==
    /\ heap[o].source.kind = "gen" /\ TakeGenOf(o).kind = "take"
    /\ TakeGenOf(o).status = "fresh"
    /\ heap[o].operations = <<>> /\ ~heap[o].reversed

\* the receiver of take reads the endless generator, untouched so far, and
\* its steps accept every element
OverEndlessAccepting(r) ==
    /\ heap[r].source.kind = "gen"
    /\ gens[heap[r].source.g].kind = "inf" /\ gens[heap[r].source.g].status = "fresh"
    /\ \A i \in 1..Len(heap[r].operations) :
           heap[r].operations[i].fn \in {"inc", "spy"}

\* C4: on an infinite source whose elements the steps all accept,
\* from(src).take(n).collect() advances the source exactly n times and
\* returns the first n stepped elements.
C4_TakePullsExactlyN ==
    [][(/\ last'.op = "collect" /\ ncalls' = ncalls + 1
        /\ FreshTake(last'.recv)
        /\ OverEndlessAccepting(TakeGenOf(last'.recv).recv)) =>
           /\ last'.pulls = TakeGenOf(last'.recv).n
           /\ last'.ret.kind = "Ok"
           /\ Len(last'.ret.val) = TakeGenOf(last'.recv).n]_vars

\* C5: for s = from(A).skip(n), n >= 0, each of two successive s.collect()
\* calls returns Success(A[n..]).
C5_SkipCounterPerEvaluation ==
    [][(/\ last.op = "collect" /\ OnArray(last.recv)
        /\ Len(last.ops) = 1 /\ last.ops[1].kind = "skip"
        /\ last.ops[1].n >= 0 /\ last.ops[1].count = 0 /\ ~last.rev
        /\ last'.op = "collect" /\ last'.recv = last.recv
        /\ ncalls' = ncalls + 1) =>
           /\ last.ret = Ok(Drop(ArrayOf(last.recv), last.ops[1].n))
           /\ last'.ret = Ok(Drop(ArrayOf(last.recv), last.ops[1].n))]_vars

\* C6: skip(n), take(n) and nth(n) with n < 0 raise IterNegativeNumberError
\* at call time, without pulling an element.
C6_EagerValidation ==
    (last.op \in {"skip", "take", "nth"} /\ last.n < 0) =>
        /\ last.ret = Thrown("IterNegativeNumberError")
        /\ last.pulls = 0

\* what s.collect() would return in the current state, and after the step
CollectNow(o) == collect(Machine, o).ret
CollectAfter(o) ==
    collect([heap |-> heap', gens |-> gens', calls |-> ZeroCalls, pulls |-> 0,
             opulls |-> 0, threw |-> FALSE], o).ret

\* C7: a terminal operation leaves the step list and the flags of the
\* sequence unchanged, so that over a fixed collection s.collect() returns
\* the same whether or not s.nth(k), k >= 0, was called before it.
C7_TerminalsDoNotInterfere ==
    [][(/\ last'.op \in TerminalOps /\ ncalls' = ncalls + 1
        /\ last'.op = "nth" => last'.n >= 0) =>
           /\ StepList(heap'[last'.recv].operations) = StepList(heap[last'.recv].operations)
           /\ heap'[last'.recv].reversed = heap[last'.recv].reversed
           /\ (last'.op = "nth" /\ OnArray(last'.recv)) =>
                  CollectAfter(last'.recv) = CollectNow(last'.recv)]_vars

PlainOps == {"find", "position", "some", "all", "nth", "last", "count", "reduce"}
ResultOps == {"collect", "fold", "groupBy", "sortBy", "unzip"}

\* C8: when a registered step or the supplied predicate / reducer raises
\* during find, position, some, all, nth (of an index n >= 0), last, count
\* or reduce, the exception reaches the caller.
C8_PlainTerminalsPropagate ==
    (/\ last.op \in PlainOps /\ last.threw
     /\ last.op = "nth" => last.n >= 0) => last.ret.kind = "Throw"

ErrorKind(op) ==
    CASE op = "collect" -> "IterCollectError"
      [] op = "fold" -> "IterFoldError"
      [] op = "groupBy" -> "IterGroupByError"
      [] op = "sortBy" -> "IterSortByError"
      [] op = "unzip" -> "IterUnzipError"

\* C9: collect, fold, groupBy, sortBy and unzip never raise; when a
\* registered step or their own callback raises they return Failure with the
\* error kind of the operation.
C9_ResultTerminalsCatch ==
    last.op \in ResultOps =>
        /\ last.ret.kind \in {"Ok", "Err"}
        /\ last.threw => last.ret = Err(ErrorKind(last.op))
        /\ last.ret.kind = "Err" => last.ret.err = ErrorKind(last.op)

\* a fold whose reducer raised part-way
C9_Witness ==
    /\ last.op = "fold" /\ last.fn = "boomAdd" /\ last.threw
    /\ last.calls["boomAdd"] = 2
    /\ last.ret = Err("IterFoldError")

\* the receiver's steps are skip(n), its counter untouched, then steps that
\* work element by element and do not raise on a[n..]
SkipThen(ops, a) ==
    /\ Len(ops) >= 1 /\ ops[1].kind = "skip" /\ ops[1].n >= 0 /\ ops[1].count = 0
    /\ PerElementOnly(Tail(ops))
    /\ ~RefRaises(Drop(a, ops[1].n), Tail(ops))

\* C10: from(A).skip(n).take(m).collect(), n >= 0 and m >= 0, returns
\* Success of A[n, n+m), shorter or empty when A is short; steps registered
\* after skip(n) are not invoked on the n skipped elements.
C10_SkipTakeSlice ==
    [][/\ (/\ last'.op = "collect" /\ ncalls' = ncalls + 1
           /\ FreshTake(last'.recv)
           /\ OnArray(TakeGenOf(last'.recv).recv)
           /\ ~heap[TakeGenOf(last'.recv).recv].reversed
           /\ SkipThen(heap[TakeGenOf(last'.recv).recv].operations,
                       ArrayOf(TakeGenOf(last'.recv).recv))) =>
              LET r == TakeGenOf(last'.recv).recv
                  ops == heap[r].operations
                  rest == Drop(ArrayOf(r), ops[1].n)
              IN /\ last'.ret = Ok(FirstN(RefCollect(rest, Tail(ops)),
                                          TakeGenOf(last'.recv).n))
                 /\ \A f \in Callbacks :
                        last'.calls[f] <= RefCalls(rest, Tail(ops), f)
       \* take(0) is the empty sequence
       /\ (last'.op = "take" /\ last'.n = 0 /\ ncalls' = ncalls + 1) =>
              /\ heap'[last'.ret.val] = NewIter(ArraySrc(<<>>), heap[last'.recv].elem)
              /\ CollectAfter(last'.ret.val) = Ok(<<>>)
       \* without take: the later steps see a[n..] only
       /\ (/\ last'.op = "collect" /\ ncalls' = ncalls + 1
           /\ OnArray(last'.recv) /\ ~heap[last'.recv].reversed
           /\ SkipThen(heap[last'.recv].operations, ArrayOf(last'.recv))) =>
              LET ops == heap[last'.recv].operations
                  rest == Drop(ArrayOf(last'.recv), ops[1].n)
              IN /\ last'.ret = Ok(RefCollect(rest, Tail(ops)))
                 /\ \A f \in Callbacks :
                        last'.calls[f] = RefCalls(rest, Tail(ops), f)]_vars

\* skip(1).take(1).collect() over an array of MaxLen elements gave its
\* second element
C10_Witness ==
    /\ last.op = "collect" /\ last.recv = 2 /\ Len(heap) = 2
    /\ heap[2].source.kind = "gen" /\ gens[heap[2].source.g].kind = "take"
    /\ gens[heap[2].source.g].n = 1
    /\ OnArray(1) /\ Len(ArrayOf(1)) = MaxLen
    /\ Len(heap[1].operations) = 1 /\ heap[1].operations[1].kind = "skip"
    /\ heap[1].operations[1].n = 1
    /\ last.ret = Ok(<<ArrayOf(1)[2]>>)

\* the source elements up to and including the first one whose evaluated
\* value gives the predicate f the value want; all of a when there is none
IsHit(ops, x, f, want) ==
    RefThread(ops, x).some /\ FilterValue(f, RefThread(ops, x).v) = want
HasHit(a, ops, f, want) == \E k \in 1..Len(a) : IsHit(ops, a[k], f, want)
FirstHit(a, ops, f, want) ==
    CHOOSE k \in 1..Len(a) :
        /\ IsHit(ops, a[k], f, want)
        /\ \A j \in 1..(k - 1) : ~IsHit(ops, a[j], f, want)
UpToHit(a, ops, f, want) ==
    IF HasHit(a, ops, f, want) THEN FirstN(a, FirstHit(a, ops, f, want)) ELSE a

\* what the search returns
SearchResult(op, a, ops, f) ==
    LET want == (op # "all")
        hit == HasHit(a, ops, f, want)
        seen == RefCollect(UpToHit(a, ops, f, want), ops)
    IN CASE op = "find" -> IF hit THEN RetSome(seen[Len(seen)]) ELSE RetNone
         [] op = "position" -> IF hit THEN RetSome(Len(seen) - 1) ELSE RetNone
         [] op = "some" -> Plain(hit)
         [] op = "all" -> Plain(~hit)

SearchOps == {"find", "position", "some", "all"}

\* C11: find, position and some stop at the first evaluated element that
\* satisfies the predicate, all at the first that fails it: the source is
\* pulled up to that element and no further, the predicate and the steps
\* are invoked on exactly the elements up to it, and the result is
\* Present(element), Present(0-based index), true / false, or Absent /
\* false / true when no element qualifies.
C11_SearchShortCircuit ==
    (/\ last.op \in SearchOps /\ OnArray(last.recv) /\ PerElementOnly(last.ops)
     /\ LET seenSrc == UpToHit(ArrayOf(last.recv), last.ops, last.fn, last.op # "all")
        IN /\ ~RefRaises(seenSrc, last.ops)
           /\ \A i \in 1..Len(RefCollect(seenSrc, last.ops)) :
                  ~CbThrows(last.fn, RefCollect(seenSrc, last.ops)[i])) =>
        LET seenSrc == UpToHit(ArrayOf(last.recv), last.ops, last.fn, last.op # "all")
        IN /\ last.pulls = Len(seenSrc)
           /\ \A g \in Callbacks :
                  last.calls[g] = RefCalls(seenSrc, last.ops, g)
                      + (IF g = last.fn THEN Len(RefCollect(seenSrc, last.ops)) ELSE 0)
           /\ last.ret = SearchResult(last.op, ArrayOf(last.recv), last.ops, last.fn)

\* a find that stopped at the second of MaxLen elements
C11_Witness ==
    /\ last.op = "find" /\ last.fn = "even" /\ OnArray(last.recv)
    /\ Len(ArrayOf(last.recv)) = MaxLen /\ Len(last.ops) = 1
    /\ last.ops[1].kind = "map"
    /\ last.pulls = 2 /\ last.calls["even"] = 2
    /\ last.ret.kind = "Some"

\* no step of ops drops an element of a
NothingDropped(a, ops) == Len(RefCollect(a, ops)) = Len(a)

\* nth(n), n >= 0, on a sequence over an array whose steps work element by
\* element and do not raise
NthCase ==
    /\ last.op = "nth" /\ last.n >= 0 /\ OnArray(last.recv)
    /\ PerElementOnly(last.ops) /\ ~RefRaises(ArrayOf(last.recv), last.ops)

\* the element at 0-based index n of the evaluated sequence, if any
NthValue ==
    LET e == RefCollect(ArrayOf(last.recv), last.ops)
    IN IF Len(e) > last.n THEN RetSome(e[last.n + 1]) ELSE RetNone

\* C12: nth(n), n >= 0, returns Present of the element at index n of the
\* evaluated sequence, Absent when there are fewer than n + 1; when no step
\* drops an element it pulls at most n + 1 source elements and runs each
\* registered step on at most n + 1 elements.
C12_NthPullsAtMostNPlusOne ==
    NthCase =>
        /\ last.ret = NthValue
        /\ NothingDropped(ArrayOf(last.recv), last.ops) =>
               /\ last.pulls <= last.n + 1
               /\ \A f \in Callbacks :
                      last.calls[f] <= Occurrences(last.ops, f) * (last.n + 1)

\* the parts of C12 about the value and about the steps, without the bound
\* on the pulls
C12_NthValueAndSteps ==
    NthCase =>
        /\ last.ret = NthValue
        /\ NothingDropped(ArrayOf(last.recv), last.ops) =>
               \A f \in Callbacks :
                   last.calls[f] <= Occurrences(last.ops, f) * (last.n + 1)

\* C13: a sequence over a fixed collection with map / filter / filterMap /
\* tap steps can be consumed repeatedly: a second collect() starts again at
\* the first element, invokes every step once more per element reaching it
\* and returns what the first returned.
C13_Reuse ==
    [][(/\ last.op = "collect" /\ last'.op = "collect" /\ last'.recv = last.recv
        /\ ncalls' = ncalls + 1
        /\ OnArray(last.recv) /\ PerElementOnly(last.ops)) =>
           /\ last'.ret = last.ret
           /\ last'.calls = last.calls /\ last'.pulls = last.pulls
           /\ ~RefRaises(ArrayOf(last.recv), last.ops) =>
                  /\ last'.pulls = Len(ArrayOf(last.recv))
                  /\ \A f \in Callbacks :
                         last'.calls[f] = RefCalls(ArrayOf(last.recv), last.ops, f)
                  /\ last'.ret.kind = "Ok"]_vars

\* a collect over MaxLen elements and a map step has run the step MaxLen
\* times, and the collect that may follow it runs the step MaxLen times
\* again for the same result
C13_Witness ==
    /\ ncalls < MaxCalls /\ last.op = "collect" /\ OnArray(last.recv)
    /\ heap[last.recv].operations = last.ops
    /\ Len(last.ops) = 1 /\ last.ops[1].kind = "map" /\ last.ops[1].fn = "inc"
    /\ Len(ArrayOf(last.recv)) = MaxLen
    /\ last.calls["inc"] = MaxLen /\ last.pulls = MaxLen
    /\ last.ret.kind = "Ok" /\ Len(last.ret.val) = MaxLen
    /\ collect(Machine, last.recv).ret = last.ret
    /\ collect(Machine, last.recv).m.calls["inc"] = MaxLen

\* C14: chunk(size) with size <= 0 returns Failure carrying the
\* invalid-argument error, raises nothing, builds no sequence and pulls no
\* element.
C14_ChunkRejectsNonPositive ==
    (last.op = "chunk" /\ last.n <= 0) =>
        /\ last.ret = Err("IterNegativeNumberError")
        /\ last.pulls = 0 /\ last.calls = ZeroCalls /\ ~last.threw

\* chunk(0) on a sequence over MaxLen elements
C14_Witness ==
    /\ last.op = "chunk" /\ last.n = 0 /\ OnArray(last.recv)
    /\ Len(ArrayOf(last.recv)) = MaxLen
    /\ last.ret.kind = "Err" /\ Len(heap) = 1

\* o is the sequence chunk(size) returned, not evaluated yet and without
\* steps of its own
FreshChunk(o) ==
    /\ heap[o].source.kind = "gen" /\ gens[heap[o].source.g].kind = "chunk"
    /\ gens[heap[o].source.g].status = "fresh"
    /\ heap[o].operations = <<>> /\ ~heap[o].reversed

\* the groups of gs one after the other
RECURSIVE Flatten(_)
Flatten(gs) == IF gs = <<>> THEN <<>> ELSE Head(gs) \o Flatten(Tail(gs))

\* C15: collecting chunk(size), size > 0, of a finite sequence gives groups
\* whose concatenation is the evaluated sequence; every group but the last
\* has size elements, the last has between 1 and size, and an empty
\* sequence gives no group.
C15_ChunkPartition ==
    [][(/\ last'.op = "collect" /\ ncalls' = ncalls + 1
        /\ FreshChunk(last'.recv)
        /\ OnArray(gens[heap[last'.recv].source.g].recv)
        /\ PerElementOnly(heap[gens[heap[last'.recv].source.g].recv].operations)
        /\ ~RefRaises(ArrayOf(gens[heap[last'.recv].source.g].recv),
                      heap[gens[heap[last'.recv].source.g].recv].operations)) =>
           LET gen == gens[heap[last'.recv].source.g]
               e == RefCollect(ArrayOf(gen.recv), heap[gen.recv].operations)
               gs == last'.ret.val
           IN /\ last'.ret.kind = "Ok"
              /\ Flatten(gs) = e
              /\ \A i \in 1..(Len(gs) - 1) : Len(gs[i]) = gen.n
              /\ gs # <<>> => Len(gs[Len(gs)]) \in 1..gen.n
              /\ e = <<>> => gs = <<>>]_vars

\* chunk(2) of MaxLen elements collected: the last group is short
C15_Witness ==
    /\ last.op = "collect" /\ heap[last.recv].source.kind = "gen"
    /\ gens[heap[last.recv].source.g].kind = "chunk"
    /\ gens[heap[last.recv].source.g].n = 2
    /\ OnArray(gens[heap[last.recv].source.g].recv)
    /\ last.ret.kind = "Ok" /\ Len(last.ret.val) = 2
    /\ Len(last.ret.val[1]) = 2 /\ Len(last.ret.val[2]) = MaxLen - 2
    /\ Flatten(last.ret.val) = ArrayOf(gens[heap[last.recv].source.g].recv)

\* o is the sequence zip(other) returned, not evaluated yet and without
\* steps of its own, over a receiver on an array whose steps work element
\* by element and do not raise
FreshZip(o) ==
    /\ heap[o].source.kind = "gen" /\ gens[heap[o].source.g].kind = "zip"
    /\ gens[heap[o].source.g].status = "fresh"
    /\ heap[o].operations = <<>> /\ ~heap[o].reversed
    /\ OnArray(gens[heap[o].source.g].recv)
    /\ PerElementOnly(heap[gens[heap[o].source.g].recv].operations)
    /\ ~RefRaises(ArrayOf(gens[heap[o].source.g].recv),
                  heap[gens[heap[o].source.g].recv].operations)

\* the evaluated elements of the receiver of the zip generator of o, and
\* the other collection
ZipLeft(o) ==
    RefCollect(ArrayOf(gens[heap[o].source.g].recv),
               heap[gens[heap[o].source.g].recv].operations)
ZipRight(o) == gens[heap[o].source.g].other

Min(i, j) == IF i < j THEN i ELSE j

\* the positional pairs of a and b, as many as the shorter has elements
PairsOf(a, b) == [i \in 1..Min(Len(a), Len(b)) |-> <<a[i], b[i]>>]

\* C16: from(A).zip(B).collect() returns Success of min(len A, len B) pairs,
\* the i-th being [A[i], B[i]]; unequal lengths are no error.
C16_ZipPairsToShorter ==
    [][(/\ last'.op = "collect" /\ ncalls' = ncalls + 1 /\ FreshZip(last'.recv)) =>
           /\ last'.ret = Ok(PairsOf(ZipLeft(last'.recv), ZipRight(last'.recv)))
           /\ ~last'.threw]_vars

\* a zip of two elements with MaxLen others collected: two pairs
C16_Witness ==
    /\ last.op = "collect" /\ heap[last.recv].source.kind = "gen"
    /\ gens[heap[last.recv].source.g].kind = "zip"
    /\ OnArray(gens[heap[last.recv].source.g].recv)
    /\ heap[gens[heap[last.recv].source.g].recv].operations = <<>>
    /\ Len(ArrayOf(gens[heap[last.recv].source.g].recv)) = 2
    /\ Len(gens[heap[last.recv].source.g].other) = MaxLen
    /\ last.ret.kind = "Ok" /\ Len(last.ret.val) = 2
    /\ last.ret.val[2] = <<ArrayOf(gens[heap[last.recv].source.g].recv)[2], 2>>

\* C17: for collections A and B of equal length, from(A).zip(B).unzip()
\* returns Success([A, B]).
C17_ZipUnzipRoundTrip ==
    [][(/\ last'.op = "unzip" /\ ncalls' = ncalls + 1 /\ FreshZip(last'.recv)
        /\ Len(ZipLeft(last'.recv)) = Len(ZipRight(last'.recv))) =>
           /\ last'.ret = Ok(<<ZipLeft(last'.recv), ZipRight(last'.recv)>>)
           /\ heap[gens[heap[last'.recv].source.g].recv].operations = <<>> =>
                  last'.ret.val[1] = ArrayOf(gens[heap[last'.recv].source.g].recv)]_vars

\* from(A).zip(B).unzip() for A and B of MaxLen elements, A other than B
C17_Witness ==
    /\ last.op = "unzip" /\ heap[last.recv].source.kind = "gen"
    /\ gens[heap[last.recv].source.g].kind = "zip"
    /\ OnArray(gens[heap[last.recv].source.g].recv)
    /\ heap[gens[heap[last.recv].source.g].recv].operations = <<>>
    /\ Len(gens[heap[last.recv].source.g].other) = MaxLen
    /\ ArrayOf(gens[heap[last.recv].source.g].recv) # gens[heap[last.recv].source.g].other
    /\ last.ret = Ok(<<ArrayOf(gens[heap[last.recv].source.g].recv),
                       gens[heap[last.recv].source.g].other>>)

\* fn(...fn(fn(acc, s[1]), s[2])..., s[k])
RECURSIVE RefFoldLeft(_, _, _)
RefFoldLeft(f, acc, s) ==
    IF s = <<>> THEN acc
    ELSE RefFoldLeft(f, ReduceValue(f, acc, Head(s)), Tail(s))

\* reduce or fold with a reducer that does not raise, on a sequence over an
\* array whose steps work element by element and do not raise
FoldCase(op) ==
    /\ last.op = op /\ last.fn \in {"add", "sub"} /\ OnArray(last.recv)
    /\ PerElementOnly(last.ops) /\ ~RefRaises(ArrayOf(last.recv), last.ops)

\* C18: reduce(fn) is Absent on an empty sequence and otherwise Present of
\* the left fold of the later elements seeded with the first, fn being
\* called once per later element; fold(fn, initial) is Success of the left
\* fold of all elements from initial, Success(initial) on an empty sequence.
C18_LeftFolds ==
    LET e == RefCollect(ArrayOf(last.recv), last.ops) IN
    /\ FoldCase("reduce") =>
           /\ e = <<>> => last.ret = RetNone
           /\ e # <<>> => /\ last.ret = RetSome(RefFoldLeft(last.fn, e[1], Tail(e)))
                          /\ last.calls[last.fn] = Len(e) - 1
                              + RefCalls(ArrayOf(last.recv), last.ops, last.fn)
    /\ FoldCase("fold") =>
           /\ last.ret = Ok(RefFoldLeft(last.fn, last.n, e))
           /\ e = <<>> => last.ret = Ok(last.n)
           /\ last.calls[last.fn] = Len(e)

\* a reduce with the subtraction over MaxLen elements
C18_Witness ==
    /\ last.op = "reduce" /\ last.fn = "sub" /\ OnArray(last.recv) /\ last.ops = <<>>
    /\ Len(ArrayOf(last.recv)) = MaxLen /\ last.calls["sub"] = MaxLen - 1
    /\ last.ret = RetSome(ArrayOf(last.recv)[1] - ArrayOf(last.recv)[2]
                              - ArrayOf(last.recv)[3])

\* the elements of e whose key under f is k, in the order of e
WithKey(e, f, k) == SelectSeq(e, LAMBDA x : KeyValue(f, x) = k)

\* the index in e of the first element whose key under f is k
FirstWithKey(e, f, k) ==
    CHOOSE i \in 1..Len(e) :
        /\ KeyValue(f, e[i]) = k
        /\ \A j \in 1..(i - 1) : KeyValue(f, e[j]) # k

RECURSIVE SumOfSizes(_)
SumOfSizes(gs) == IF gs = <<>> THEN 0 ELSE Len(Head(gs).items) + SumOfSizes(Tail(gs))

\* C19: groupBy(keyFn) returns Success of a map in which every evaluated
\* element is in exactly one group, that of its key; the sizes add up to
\* the number of elements, the keys stand in first-seen order and the
\* elements of a group in source order.
C19_GroupByPartition ==
    (/\ last.op = "groupBy" /\ OnArray(last.recv) /\ PerElementOnly(last.ops)
     /\ ~RefRaises(ArrayOf(last.recv), last.ops)
     /\ \A i \in 1..Len(RefCollect(ArrayOf(last.recv), last.ops)) :
            ~CbThrows(last.fn, RefCollect(ArrayOf(last.recv), last.ops)[i])) =>
        LET e == RefCollect(ArrayOf(last.recv), last.ops)
            gs == last.ret.val
        IN /\ last.ret.kind = "Ok"
           /\ \A i, j \in 1..Len(gs) : gs[i].key = gs[j].key => i = j
           /\ \A i \in 1..Len(gs) :
                  gs[i].items # <<>> /\ gs[i].items = WithKey(e, last.fn, gs[i].key)
           /\ \A k \in 1..Len(e) :
                  \E i \in 1..Len(gs) : gs[i].key = KeyValue(last.fn, e[k])
           /\ SumOfSizes(gs) = Len(e)
           /\ \A i, j \in 1..Len(gs) :
                  i < j => FirstWithKey(e, last.fn, gs[i].key)
                               < FirstWithKey(e, last.fn, gs[j].key)
           /\ last.calls[last.fn] = Len(e)

\* MaxLen elements grouped by parity into a group of two and a group of one
C19_Witness ==
    /\ last.op = "groupBy" /\ last.fn = "parity" /\ OnArray(last.recv)
    /\ last.ops = <<>> /\ Len(ArrayOf(last.recv)) = MaxLen
    /\ last.ret.kind = "Ok" /\ Len(last.ret.val) = 2
    /\ Len(last.ret.val[1].items) = 1 /\ Len(last.ret.val[2].items) = 2

\* how often v occurs in s
CountOf(s, v) == Cardinality({i \in 1..Len(s) : s[i] = v})

\* s holds the elements of e, each as often as e does
IsPermutation(s, e) ==
    /\ Len(s) = Len(e)
    /\ \A i \in 1..Len(e) : CountOf(s, e[i]) = CountOf(e, e[i])

\* non-decreasing under (a, b) => a - b
NonDecreasing(s) == \A i \in 1..(Len(s) - 1) : s[i] <= s[i + 1]

\* C20: sortBy(compareFn) returns Success of a new sequence whose collect()
\* is a permutation of the evaluated elements of the receiver in
\* non-decreasing order under compareFn.
C20_SortBySorts ==
    [][(/\ last'.op = "sortBy" /\ ncalls' = ncalls + 1
        /\ OnArray(last'.recv) /\ PerElementOnly(last'.ops)
        /\ ~RefRaises(ArrayOf(last'.recv), last'.ops)
        /\ ~SortThrows(last'.fn, RefCollect(ArrayOf(last'.recv), last'.ops))) =>
           /\ last'.ret.kind = "Ok"
           /\ last'.ret.val = Len(heap) + 1 /\ Len(heap') = Len(heap) + 1
           /\ CollectAfter(last'.ret.val).kind = "Ok"
           /\ NonDecreasing(CollectAfter(last'.ret.val).val)
           /\ IsPermutation(CollectAfter(last'.ret.val).val,
                            RefCollect(ArrayOf(last'.recv), last'.ops))]_vars

\* MaxLen elements that begin with a descent, sorted
C20_Witness ==
    /\ last.op = "sortBy" /\ last.fn = "asc" /\ OnArray(last.recv) /\ last.ops = <<>>
    /\ Len(ArrayOf(last.recv)) = MaxLen
    /\ ArrayOf(last.recv)[1] > ArrayOf(last.recv)[2]
    /\ last.ret.kind = "Ok"
    /\ collect(Machine, last.ret.val).ret.kind = "Ok"
    /\ NonDecreasing(collect(Machine, last.ret.val).ret.val)
    /\ IsPermutation(collect(Machine, last.ret.val).ret.val, ArrayOf(last.recv))

\* C21: sortBy never exposes a mutated input: after sortBy returns, Success
\* or Failure (a step or compareFn raised), every collection given to from()
\* has its elements in their original order, and collect() on the receiver
\* returns what it would have returned before the call.  Stated for every
\* receiver the caller can build.
C21_SortByLeavesReceiver ==
    [][(/\ last'.op = "sortBy" /\ ncalls' = ncalls + 1
        /\ last'.ret.kind \in {"Ok", "Err"}) =>
           /\ \A o \in Objects :
                  OnArray(o) => heap'[o].source = heap[o].source
           /\ CollectAfter(last'.recv) = CollectNow(last'.recv)]_vars

\* what the code does keep (C21): sortBy sorts a copy, so the collections,
\* whatever the receiver, are as they were
C21_SortByLeavesCollections ==
    [][(/\ last'.op = "sortBy" /\ ncalls' = ncalls + 1) =>
           /\ Len(heap') >= Len(heap)
           /\ \A o \in Objects :
                  OnArray(o) => heap'[o].source = heap[o].source]_vars

\* what the code does keep (C21): over a collection and steps that work
\* element by element the receiver is untouched, and collect() on it
\* returns after the call what it would have returned before it
C21_SortByLeavesInput ==
    [][(/\ last'.op = "sortBy" /\ ncalls' = ncalls + 1
        /\ OnArray(last'.recv) /\ PerElementOnly(last'.ops)) =>
           /\ last'.ret.kind \in {"Ok", "Err"}
           /\ heap'[last'.recv] = heap[last'.recv]
           /\ \A o \in Objects : heap'[o] = heap[o]
           /\ CollectAfter(last'.recv) = CollectNow(last'.recv)]_vars

\* what the code does instead (C21): sortBy evaluates the receiver, so a
\* receiver that carries a skip step has the counter of that step advanced
\* by the number of elements the step was given, and a receiver built by
\* take, chunk or zip has its generator finished
C21_SortByConsumesReceiver ==
    [][(/\ last'.op = "sortBy" /\ ncalls' = ncalls + 1
        /\ last'.ret.kind \in {"Ok", "Err"} /\ ~last'.threw) =>
           /\ (/\ OnArray(last'.recv) /\ Len(last'.ops) = 1
               /\ last'.ops[1].kind = "skip") =>
                  heap'[last'.recv].operations[1].count =
                      last'.ops[1].count + Len(ArrayOf(last'.recv))
           /\ heap[last'.recv].source.kind = "gen" =>
                  gens'[heap[last'.recv].source.g].status = "done"]_vars

\* compareFn raised over MaxLen elements that begin with a descent: Failure,
\* and the collection still begins with that descent
C21_Witness ==
    /\ last.op = "sortBy" /\ last.fn = "boomCmp" /\ OnArray(last.recv)
    /\ last.ops = <<>> /\ ~last.rev
    /\ Len(ArrayOf(last.recv)) = MaxLen
    /\ ArrayOf(last.recv)[1] > ArrayOf(last.recv)[2]
    /\ last.ret = Err("IterSortByError") /\ last.threw
    /\ collect(Machine, last.recv).ret = Ok(ArrayOf(last.recv))

\* s in the opposite order, written index by index
Backwards(s) == [i \in 1..Len(s) |-> s[Len(s) + 1 - i]]

\* C22: over a finite collection A and steps that do not raise, collect()
\* of a sequence whose reverse flag is set returns Success of A's evaluated
\* elements in the opposite order, every element having been pulled and put
\* through the steps as without the flag; reverse() returns its receiver,
\* turns collect()'s result round, and applied to a sequence already
\* reversed gives the evaluated elements in their original order again.
C22_Reverse ==
    /\ (/\ last.op = "collect" /\ OnArray(last.recv) /\ PerElementOnly(last.ops)
        /\ ~RefRaises(ArrayOf(last.recv), last.ops)) =>
           /\ last.ret.kind = "Ok"
           /\ last.rev =>
                  last.ret.val = Backwards(RefCollect(ArrayOf(last.recv), last.ops))
           /\ ~last.rev => last.ret.val = RefCollect(ArrayOf(last.recv), last.ops)
           /\ last.pulls = Len(ArrayOf(last.recv))
           /\ \A f \in Callbacks :
                  last.calls[f] = RefCalls(ArrayOf(last.recv), last.ops, f)
    /\ (/\ last.op = "reverse" /\ OnArray(last.recv) /\ PerElementOnly(last.ops)
        /\ ~RefRaises(ArrayOf(last.recv), last.ops)) =>
           /\ last.ret = Ref(last.recv)
           /\ last.pulls = 0 /\ last.calls = ZeroCalls
           /\ heap[last.recv].reversed = ~last.rev
           /\ heap[last.recv].operations = last.ops
           /\ CollectNow(last.recv).kind = "Ok"
           /\ ~last.rev => CollectNow(last.recv).val =
                               Backwards(RefCollect(ArrayOf(last.recv), last.ops))
           /\ last.rev => CollectNow(last.recv).val =
                              RefCollect(ArrayOf(last.recv), last.ops)

\* MaxLen elements, not the same read from either end, collected in the
\* opposite order through a map step
C22_Witness ==
    /\ last.op = "collect" /\ OnArray(last.recv) /\ last.rev
    /\ Len(ArrayOf(last.recv)) = MaxLen
    /\ ArrayOf(last.recv)[1] # ArrayOf(last.recv)[MaxLen]
    /\ Len(last.ops) = 1 /\ last.ops[1].fn = "inc"
    /\ last.ret.kind = "Ok" /\ Len(last.ret.val) = MaxLen
    /\ last.ret.val[1] = ArrayOf(last.recv)[MaxLen] + 1
    /\ last.ret.val[MaxLen] = ArrayOf(last.recv)[1] + 1

(***************************************************************************)
(* The state machine of the Option and Result calls.                       *)
(***************************************************************************)
InitOption ==
    /\ heap = <<>> /\ gens = <<>> /\ last = NoCall /\ ncalls = 0
    /\ pline = Idle /\ scope = Idle
    /\ ocall = NoOptCall

\* the Option and the Result the last call returned
IsOption(x) == x.tag \in {"Some", "None"}
IsResult(x) == x.tag \in {"Ok", "Err"}

\* Option.some(value), its parameter being NonNullable<T>
OptionSomeCall == \E value \in NonNullValues :
    /\ ocall' = OptCall("Option.some", OptionNone, value, <<>>, <<>>, OptionSome(value))
    /\ UNCHANGED notOption

OptionNoneCall ==
    /\ ocall' = OptCall("Option.none", OptionNone, Nothing, <<>>, <<>>, OptionNone)
    /\ UNCHANGED notOption

OptionFromNullableCall == \E value \in AnyValues :
    /\ ocall' = OptCall("Option.fromNullable", OptionNone, value, <<>>, <<>>,
                        OptionFromNullable(value))
    /\ UNCHANGED notOption

OptionMapCall == \E fn \in NonNullMapFns :
    /\ ocall.op # "" /\ IsOption(ocall.out)
    /\ ocall' = OptCall("map", ocall.out, Nothing, <<>>, <<AnyStep("map", fn)>>,
                        OptionMap(ocall.out, fn))
    /\ UNCHANGED notOption

OkOrCall == \E defaultValue \in AnyValues :
    /\ ocall.op # "" /\ IsOption(ocall.out)
    /\ ocall' = OptCall("okOr", ocall.out, defaultValue, <<>>, <<>>,
                        okOr(ocall.out, defaultValue))
    /\ UNCHANGED notOption

ResultOkCall == \E value \in AnyValues :
    /\ ocall' = OptCall("Result.ok", OptionNone, value, <<>>, <<>>, ResultOk(value))
    /\ UNCHANGED notOption

ResultErrCall == \E error \in AnyValues :
    /\ ocall' = OptCall("Result.err", OptionNone, error, <<>>, <<>>, ResultErr(error))
    /\ UNCHANGED notOption

ResultToOkCall ==
    /\ IsResult(ocall.out)
    /\ ocall' = OptCall("ok", ocall.out, Nothing, <<>>, <<>>, ResultToOk(ocall.out))
    /\ UNCHANGED notOption

ResultToErrCall ==
    /\ IsResult(ocall.out)
    /\ ocall' = OptCall("err", ocall.out, Nothing, <<>>, <<>>, ResultToErr(ocall.out))
    /\ UNCHANGED notOption

\* Iterator.from(source), one step registered, and a terminal
FindCall == \E source \in AnyArrays, ops \in AnyStepLists :
    /\ ocall' = OptCall("find", OptionNone, Nothing, source, ops, AnyFind(source, ops))
    /\ UNCHANGED notOption

LastCall == \E source \in AnyArrays, ops \in AnyStepLists :
    /\ ocall' = OptCall("last", OptionNone, Nothing, source, ops, AnyLast(source, ops))
    /\ UNCHANGED notOption

NthCall == \E source \in AnyArrays, ops \in AnyStepLists :
    /\ ocall' = OptCall("nth", OptionNone, Nothing, source, ops, AnyNth(source, ops))
    /\ UNCHANGED notOption

NextOption ==
    \/ OptionSomeCall \/ OptionNoneCall \/ OptionFromNullableCall \/ OptionMapCall
    \/ OkOrCall \/ ResultOkCall \/ ResultErrCall \/ ResultToOkCall \/ ResultToErrCall
    \/ FindCall \/ LastCall \/ NthCall

SpecOption == InitOption /\ [][NextOption]_vars

\* C23: every Option in the Some variant that a call returns holds a value
\* that is neither null nor undefined.
C23_SomeHoldsNoNull ==
    (/\ ocall.out.tag = "Some"
     /\ \A i \in 1..Len(ocall.source) : isNonNullable(ocall.source[i])) =>
        isNonNullable(ocall.out.value)

\* the conversions that are the same for every value: Some(x).okOr(e) is
\* Ok(x), None.okOr(e) is Err(e), Ok(x).err() is None, Err(e).ok() is None
ConversionsOfAnyValue ==
    /\ (ocall.op = "okOr" /\ ocall.in.tag = "Some") =>
           ocall.out = ResultOk(ocall.in.value)
    /\ (ocall.op = "okOr" /\ ocall.in.tag = "None") =>
           ocall.out = ResultErr(ocall.arg)
    /\ (ocall.op = "err" /\ ocall.in.tag = "Ok") => ocall.out = OptionNone
    /\ (ocall.op = "ok" /\ ocall.in.tag = "Err") => ocall.out = OptionNone

\* C24 as stated: for every value x and error e, Some(x).okOr(e) = Ok(x),
\* None.okOr(e) = Err(e), Ok(x).ok() = Some(x), Ok(x).err() = None,
\* Err(e).err() = Some(e) and Err(e).ok() = None.
C24_ConversionsOfEveryValue ==
    /\ ConversionsOfAnyValue
    /\ (ocall.op = "ok" /\ ocall.in.tag = "Ok") =>
           ocall.out = OptionSome(ocall.in.value)
    /\ (ocall.op = "err" /\ ocall.in.tag = "Err") =>
           ocall.out = OptionSome(ocall.in.error)

\* C24, amended: Some(x).okOr(e) = Ok(x), None.okOr(e) = Err(e),
\* Ok(x).err() = None and Err(e).ok() = None for every x and e; Ok(x).ok()
\* = Some(x) and Err(e).err() = Some(e) when x, e is neither null nor
\* undefined, and both are None when it is.
C24_Conversions ==
    /\ ConversionsOfAnyValue
    /\ (ocall.op = "ok" /\ ocall.in.tag = "Ok") =>
           /\ isNonNullable(ocall.in.value) => ocall.out = OptionSome(ocall.in.value)
           /\ isNullable(ocall.in.value) => ocall.out = OptionNone
    /\ (ocall.op = "err" /\ ocall.in.tag = "Err") =>
           /\ isNonNullable(ocall.in.error) => ocall.out = OptionSome(ocall.in.error)
           /\ isNullable(ocall.in.error) => ocall.out = OptionNone

\* Some(x).okOr(e) with x and e different numbers has returned Ok(x)
C24_Witness ==
    /\ ocall.op = "okOr" /\ ocall.in = OptionSome(JsNum(MaxNum))
    /\ ocall.arg = JsNum(1) /\ ocall.out = ResultOk(JsNum(MaxNum))

(***************************************************************************)
(* syncPipe and pipe (src/src/pipe.ts), with Result.try, Result.asyncTry   *)
(* and Result.isResult of the build they are compiled against              *)
(* (src/dist/esm/option.js).  A value is a base value under a stack of     *)
(* Ok / Err wrappers, outermost first.  The state is one pipeline call:    *)
(* its arguments, the position of its loop, the value carried, the calls   *)
(* its functions have seen and, at the end, what it returned.              *)
(***************************************************************************)
\* most functions handed to a pipeline
MaxFns == 3

Bare(base) == [wrap |-> <<>>, base |-> base]
WrapOk(x) == [x EXCEPT !.wrap = <<"Ok">> \o @]
WrapErr(x) == [x EXCEPT !.wrap = <<"Err">> \o @]

\* new Error(message)
ErrorOf(message) == Bare(JsError(message))

isResult(x) == Len(x.wrap) > 0
isOk(x) == isResult(x) /\ x.wrap[1] = "Ok"
isErr(x) == isResult(x) /\ x.wrap[1] = "Err"
unwrap(x) == [x EXCEPT !.wrap = Tail(@)]

\* the functions of a pipeline: what a call returns, throws, or the promise
\* it returns settles to
SyncFns == {"inc", "wrap", "wrapTwice", "fail", "boom", "boomOne", "log"}
AsyncFns == {"incLater", "failLater", "rejectLater"}

\* String(x) for an x that is not a number, as + converts it
TextOf(x) ==
    IF isResult(x) THEN "[object Object]"
    ELSE IF x.base.t = "string" THEN x.base.s
    ELSE IF x.base.t = "Error"
    THEN (IF x.base.s = "" THEN "Error" ELSE "Error: " \o x.base.s)
    ELSE x.base.t

\* (x) => x + 1: a number or null counts on, undefined and NaN give NaN,
\* anything else is turned into text and "1" put after it
IncOf(x) ==
    IF isResult(x) THEN Bare(JsString(TextOf(x) \o "1"))
    ELSE IF x.base.t = "number" THEN Bare(JsNum(x.base.v + 1))
    ELSE IF x.base.t = "null" THEN Bare(JsNum(1))
    ELSE IF x.base.t \in {"undefined", "NaN"} THEN Bare(JsNaN)
    ELSE Bare(JsString(TextOf(x) \o "1"))

PipeFnOutcome(fn, x) ==
    CASE fn = "inc" -> [kind |-> "return", val |-> IncOf(x)]
      [] fn = "wrap" -> [kind |-> "return", val |-> WrapOk(x)]
      [] fn = "wrapTwice" -> [kind |-> "return", val |-> WrapOk(WrapOk(x))]
      [] fn = "fail" -> [kind |-> "return", val |-> WrapErr(ErrorOf("failed"))]
      [] fn = "boom" -> [kind |-> "throw", val |-> ErrorOf("boom")]
      [] fn = "boomOne" -> [kind |-> "throw", val |-> Bare(JsNum(1))]
      [] fn = "log" -> [kind |-> "return", val |-> Bare(JsUndefined)]
      [] fn = "incLater" -> [kind |-> "resolve", val |-> IncOf(x)]
      [] fn = "failLater" -> [kind |-> "resolve", val |-> WrapErr(ErrorOf("failed"))]
      [] fn = "rejectLater" -> [kind |-> "reject", val |-> ErrorOf("rejected")]

\* Result.fromNullableWithError: returns a Result, or throws when value
\* and error are both null or undefined
fromNullableWithError(value, error) ==
    IF isResult(value) \/ isNonNullable(value.base)
    THEN [kind |-> "return", val |-> WrapOk(value)]
    ELSE IF isResult(error) \/ isNonNullable(error.base)
    THEN [kind |-> "return", val |-> WrapErr(error)]
    ELSE [kind |-> "throw",
          val |-> ErrorOf("Both provided values are Nullable and a Result cannot be created")]

\* the catch branch of Result.try and Result.asyncTry: a new Error with
\* the message of e when e is an Error
Caught(e) ==
    WrapErr(ErrorOf(IF ~isResult(e) /\ e.base.t = "Error" THEN e.base.s
                    ELSE "An error was thrown during a Result.try call"))

\* Result.try and Result.asyncTry of a function with the given outcome
ResultTry(outcome) ==
    IF outcome.kind \in {"throw", "reject"} THEN Caught(outcome.val)
    ELSE Bind(fromNullableWithError(outcome.val, ErrorOf("")), LAMBDA made :
         IF made.kind = "throw" THEN Caught(made.val) ELSE made.val)

\* syncPipe: const res = Result.try(() => fn(pipeCarry))
syncPipeRes(outcome) == ResultTry(outcome)

\* pipe: res of a function that returned; a promise goes through asyncTry,
\* another value through Result.ok
pipeRes(outcome) ==
    IF outcome.kind \in {"resolve", "reject"} THEN ResultTry(outcome)
    ELSE WrapOk(outcome.val)

\* the end of the loop body: return res, return val, or carry on
AfterRes(p, res) ==
    IF isErr(res) THEN [p EXCEPT !.pc = "exit", !.inner = [kind |-> "return", val |-> res]]
    ELSE IF isResult(unwrap(res))
    THEN IF isErr(unwrap(res))
         THEN [p EXCEPT !.pc = "exit",
                        !.inner = [kind |-> "return", val |-> unwrap(res)]]
         ELSE [p EXCEPT !.carry = unwrap(unwrap(res)), !.i = @ + 1]
    ELSE [p EXCEPT !.carry = unwrap(res), !.i = @ + 1]

\* one turn of the loop: fn(pipeCarry) and what is made of its result.  In
\* pipe a function that returned a promise leaves the loop waiting at the
\* await, and pipe's caller with a pending promise
LoopTurn(p) ==
    Bind(PipeFnOutcome(p.fns[p.i], p.carry), LAMBDA outcome :
    Bind([p EXCEPT !.calls = Append(@, [i |-> p.i, arg |-> p.carry])], LAMBDA q :
    IF p.kind = "pipe" /\ outcome.kind = "throw"
    THEN [q EXCEPT !.pc = "exit", !.inner = outcome]
    ELSE IF p.kind = "pipe" /\ outcome.kind \in {"resolve", "reject"}
    THEN [q EXCEPT !.pc = "await", !.promise = "pending"]
    ELSE AfterRes(q, IF p.kind = "pipe" THEN pipeRes(outcome)
                     ELSE syncPipeRes(outcome))))

\* the promise awaited in the loop of pipe has settled: res is examined
Resume(p) ==
    AfterRes([p EXCEPT !.pc = "loop"],
             pipeRes(PipeFnOutcome(p.fns[p.i], p.calls[Len(p.calls)].arg)))

\* what the function handed to the outer Result.try / asyncTry came to: the
\* return in the loop, or return pipeCarry after it
InnerOutcome(p) ==
    IF p.pc = "exit" THEN p.inner ELSE [kind |-> "return", val |-> p.carry]

\* the statements after the outer try: a Result inside pipeRes is returned
\* in its place
Unnest(res) ==
    IF isOk(res)
    THEN IF isResult(unwrap(res))
         THEN IF isErr(unwrap(res)) THEN unwrap(res)
              ELSE WrapOk(unwrap(unwrap(res)))
         ELSE res
    ELSE res

NoOutcome == [kind |-> "none", val |-> Bare(JsUndefined)]

PipeStarts == {Bare(JsNum(1)), Bare(JsUndefined)}

\* syncPipe(startVal, ...fns) and pipe(startVal, ...fns) entered
InitPipe ==
    /\ heap = <<>> /\ gens = <<>> /\ last = NoCall /\ ncalls = 0
    /\ ocall = NoOptCall /\ scope = Idle
    /\ \E kind \in {"syncPipe", "pipe"}, startVal \in PipeStarts, n \in 0..MaxFns :
       \E fns \in [1..n -> IF kind = "pipe" THEN SyncFns \cup AsyncFns ELSE SyncFns] :
           pline = [kind |-> kind, startVal |-> startVal, fns |-> fns, pc |-> "loop",
                    i |-> 1, carry |-> startVal, inner |-> NoOutcome, calls |-> <<>>,
                    promise |-> "none", ret |-> Bare(JsUndefined)]

\* the loop calls the next function
PipeCall ==
    /\ pline.pc = "loop" /\ pline.i <= Len(pline.fns)
    /\ pline' = LoopTurn(pline)
    /\ UNCHANGED notPipe

\* pipe: the promise the loop waits for settles and the loop goes on
PipeSettle ==
    /\ pline # Idle /\ pline.pc = "await"
    /\ pline' = Resume(pline)
    /\ UNCHANGED notPipe

\* the loop is left.  syncPipe returns; in pipe the function handed to
\* Result.asyncTry has returned or thrown, and pipe's caller holds a
\* pending promise until the two awaits on the way out have resumed
PipeReturn ==
    /\ \/ pline.pc = "exit"
       \/ pline.pc = "loop" /\ pline.i > Len(pline.fns)
    /\ pline' = IF pline.kind = "pipe"
                THEN [pline EXCEPT !.pc = "return", !.inner = InnerOutcome(pline),
                                   !.promise = "pending"]
                ELSE [pline EXCEPT !.pc = "done",
                                   !.ret = Unnest(ResultTry(InnerOutcome(pline)))]
    /\ UNCHANGED notPipe

\* pipe: the promise it returned is fulfilled with the Result
PipeFulfil ==
    /\ pline # Idle /\ pline.pc = "return"
    /\ pline' = [pline EXCEPT !.pc = "done", !.promise = "fulfilled",
                              !.ret = Unnest(ResultTry(pline.inner))]
    /\ UNCHANGED notPipe

NextPipe == PipeCall \/ PipeSettle \/ PipeReturn \/ PipeFulfil

SpecPipe == InitPipe /\ [][NextPipe]_vars

\* what the k-th call of the pipeline came to
OutcomeOfCall(k) == PipeFnOutcome(pline.fns[pline.calls[k].i], pline.calls[k].arg)

\* the k-th call returned a Failure (or its promise resolved to one)
ReturnedFailure(k) ==
    OutcomeOfCall(k).kind \in {"return", "resolve"} /\ isErr(OutcomeOfCall(k).val)

\* the k-th call threw, or its promise was rejected
Threw(k) == OutcomeOfCall(k).kind \in {"throw", "reject"}

\* the k-th call returned null or undefined
ReturnedNothing(k) ==
    /\ OutcomeOfCall(k).kind \in {"return", "resolve"}
    /\ ~isResult(OutcomeOfCall(k).val) /\ isNullable(OutcomeOfCall(k).val.base)

\* the output of the k-th call with one level of Result taken off
OneLevelOff(k) ==
    IF isResult(OutcomeOfCall(k).val) THEN unwrap(OutcomeOfCall(k).val)
    ELSE OutcomeOfCall(k).val

\* the functions are called in argument order, the first with startVal and
\* each later one with the output of the one before it, one level of Result
\* taken off; no function is called after one that returned a Failure or
\* threw
CalledInOrder ==
    /\ \A k \in 1..Len(pline.calls) : pline.calls[k].i = k
    /\ Len(pline.calls) >= 1 => pline.calls[1].arg = pline.startVal
    /\ \A k \in 1..(Len(pline.calls) - 1) :
           /\ ~ReturnedFailure(k) /\ ~Threw(k)
           /\ pline.calls[k + 1].arg = OneLevelOff(k)

\* a pipeline that has returned after a Failure or a throw returned a
\* Failure, the returned one if one was returned
FailureEnds ==
    \A k \in 1..Len(pline.calls) :
        /\ (pline.pc = "done" /\ (ReturnedFailure(k) \/ Threw(k))) => isErr(pline.ret)
        /\ (pline.pc = "done" /\ ReturnedFailure(k)) =>
               pline.ret = OutcomeOfCall(k).val

\* C25: syncPipe and pipe call the functions in argument order, each with
\* the output of the one before it less one level of Result; once a
\* function has returned a Failure or thrown, no later function is called
\* and the pipeline returns a Failure (the one returned, if one was); a
\* pipeline none of whose functions returned a Failure or threw has called
\* every one of them; and with no functions and a startVal that is not
\* null or undefined the result is Success(startVal).
C25_PipelineTermination ==
    pline # Idle =>
        /\ CalledInOrder
        /\ FailureEnds
        /\ (/\ pline.pc = "done"
            /\ \A k \in 1..Len(pline.calls) : ~ReturnedFailure(k) /\ ~Threw(k)) =>
               Len(pline.calls) = Len(pline.fns)
        /\ (pline.pc = "done" /\ pline.fns = <<>> /\ isNonNullable(pline.startVal.base)) =>
               pline.ret = WrapOk(pline.startVal)

\* C25 with the exception the code makes: syncPipe also ends, with a
\* Failure, at a function that returned null or undefined, and either
\* pipeline returns a Failure when the value it ends with is null or
\* undefined.
C25_PipelineButForNothing ==
    pline # Idle =>
        /\ CalledInOrder
        /\ FailureEnds
        /\ (/\ pline.pc = "done"
            /\ \A k \in 1..Len(pline.calls) : ~ReturnedFailure(k) /\ ~Threw(k)
            /\ Len(pline.calls) < Len(pline.fns)) =>
               /\ pline.kind = "syncPipe" /\ ReturnedNothing(Len(pline.calls))
               /\ pline.ret = WrapErr(ErrorOf(""))
        /\ (pline.pc = "done" /\ pline.fns = <<>>) =>
               pline.ret = IF isNullable(pline.startVal.base) THEN WrapErr(ErrorOf(""))
                           ELSE WrapOk(pline.startVal)
        /\ (/\ pline.pc = "done" /\ Len(pline.calls) = Len(pline.fns)
            /\ pline.fns # <<>>
            /\ \A k \in 1..Len(pline.calls) :
                   /\ ~ReturnedFailure(k) /\ ~Threw(k)
                   /\ pline.kind = "syncPipe" => ~ReturnedNothing(k)) =>
               LET out == OneLevelOff(Len(pline.calls)) IN
               pline.ret = IF isResult(out) THEN Unnest(WrapOk(out))
                           ELSE IF isNullable(out.base) THEN WrapErr(ErrorOf(""))
                           ELSE WrapOk(out)

(***************************************************************************)
(* withDefer (src/src/defer.ts).  The main function is a script: it        *)
(* registers callbacks with defer and errdefer and then returns or         *)
(* throws.  The state is one call: the two callback arrays, where the      *)
(* call stands (main function, catch block, finally block, left), how it   *)
(* is about to complete, and the log the callbacks write.                  *)
(***************************************************************************)
\* most callbacks the main function registers
MaxRegs == 3

\* a registration: defer or errdefer, of a callback that returns or throws
Registrations == [op : {"defer", "errdefer"}, throws : BOOLEAN]

MainScripts == UNION {[1..n -> Registrations] : n \in 0..MaxRegs}

\* what the main function returns, throws, and what callback k throws
MainValue == Bare(JsNum(1))
MainError == ErrorOf("main")
CallbackError == ErrorOf("callback")

\* a completion of the function body: none yet, return val, throw val
Completion(kind, val) == [kind |-> kind, val |-> val]

\* Array.prototype.unshift
Unshift(array, x) == <<x>> \o array

\* the entry callback k writes to the log, with the argument it was given
LogEntry(k, arg) == [cb |-> k, arg |-> arg]
MainEnded == LogEntry(0, Bare(JsUndefined))

\* withDefer(fn) entered, fn about to run
InitDefer ==
    /\ heap = <<>> /\ gens = <<>> /\ last = NoCall /\ ncalls = 0
    /\ ocall = NoOptCall /\ pline = Idle
    /\ \E script \in MainScripts, ends \in {"return", "throw"} :
           scope = [script |-> script, ends |-> ends, pc |-> "main", ip |-> 1,
                    deferredCallbacks |-> <<>>, errdeferredCallbacks |-> <<>>,
                    j |-> 1, completion |-> Completion("none", Bare(JsUndefined)),
                    log |-> <<>>]

\* fn calls defer(callback)
DeferRegister ==
    /\ scope.pc = "main" /\ scope.ip <= Len(scope.script)
    /\ scope.script[scope.ip].op = "defer"
    /\ scope' = [scope EXCEPT !.deferredCallbacks = Unshift(@, scope.ip),
                              !.ip = @ + 1]
    /\ UNCHANGED notScope

\* fn calls errdefer(callback)
ErrdeferRegister ==
    /\ scope.pc = "main" /\ scope.ip <= Len(scope.script)
    /\ scope.script[scope.ip].op = "errdefer"
    /\ scope' = [scope EXCEPT !.errdeferredCallbacks = Unshift(@, scope.ip),
                              !.ip = @ + 1]
    /\ UNCHANGED notScope

\* fn returns: return Result.ok(...), and the finally block is entered
MainReturns ==
    /\ scope.pc = "main" /\ scope.ip > Len(scope.script) /\ scope.ends = "return"
    /\ scope' = [scope EXCEPT !.pc = "finally", !.j = 1,
                              !.completion = Completion("return", WrapOk(MainValue)),
                              !.log = Append(@, MainEnded)]
    /\ UNCHANGED notScope

\* fn throws: the catch block is entered
MainThrows ==
    /\ scope.pc = "main" /\ scope.ip > Len(scope.script) /\ scope.ends = "throw"
    /\ scope' = [scope EXCEPT !.pc = "catch", !.j = 1,
                              !.log = Append(@, MainEnded)]
    /\ UNCHANGED notScope

\* errdeferredCallbacks.forEach: the next callback is called with err; one
\* that throws ends the catch block
ErrdeferRun ==
    /\ scope.pc = "catch" /\ scope.j <= Len(scope.errdeferredCallbacks)
    /\ LET k == scope.errdeferredCallbacks[scope.j] IN
       scope' = IF scope.script[k].throws
                THEN [scope EXCEPT !.log = Append(@, LogEntry(k, MainError)),
                                   !.pc = "finally", !.j = 1,
                                   !.completion = Completion("throw", CallbackError)]
                ELSE [scope EXCEPT !.log = Append(@, LogEntry(k, MainError)),
                                   !.j = @ + 1]
    /\ UNCHANGED notScope

\* return Result.err(err), and the finally block is entered
CatchReturns ==
    /\ scope.pc = "catch" /\ scope.j > Len(scope.errdeferredCallbacks)
    /\ scope' = [scope EXCEPT !.pc = "finally", !.j = 1,
                              !.completion = Completion("return", WrapErr(MainError))]
    /\ UNCHANGED notScope

\* deferredCallbacks.forEach: the next callback is called; one that throws
\* ends the finally block and the call
DeferRun ==
    /\ scope.pc = "finally" /\ scope.j <= Len(scope.deferredCallbacks)
    /\ LET k == scope.deferredCallbacks[scope.j] IN
       scope' = IF scope.script[k].throws
                THEN [scope EXCEPT !.log = Append(@, LogEntry(k, Bare(JsUndefined))),
                                   !.pc = "left",
                                   !.completion = Completion("throw", CallbackError)]
                ELSE [scope EXCEPT !.log = Append(@, LogEntry(k, Bare(JsUndefined))),
                                   !.j = @ + 1]
    /\ UNCHANGED notScope

\* the finally block ends and the call completes as it was about to
FinallyEnds ==
    /\ scope.pc = "finally" /\ scope.j > Len(scope.deferredCallbacks)
    /\ scope' = [scope EXCEPT !.pc = "left"]
    /\ UNCHANGED notScope

NextDefer ==
    \/ DeferRegister \/ ErrdeferRegister \/ MainReturns \/ MainThrows
    \/ ErrdeferRun \/ CatchReturns \/ DeferRun \/ FinallyEnds

SpecDefer == InitDefer /\ [][NextDefer]_vars

\* the places of the log where callback k wrote
EntriesOf(k) == {x \in 1..Len(scope.log) : scope.log[x].cb = k}

RegisteredWith(op) == {k \in 1..Len(scope.script) : scope.script[k].op = op}

\* every entry of a callback comes after the main function has ended
AfterMain ==
    \A x \in 1..Len(scope.log) :
        scope.log[x].cb # 0 => \E y \in 1..(x - 1) : scope.log[y] = MainEnded

\* the callbacks of one kind wrote newest first
NewestFirst(op) ==
    \A x, y \in 1..Len(scope.log) :
        (/\ x < y /\ scope.log[x].cb \in RegisteredWith(op)
         /\ scope.log[y].cb \in RegisteredWith(op)) => scope.log[x].cb > scope.log[y].cb

\* what C26 says of a call that has ended
DeferContract ==
    /\ \A k \in RegisteredWith("defer") : Cardinality(EntriesOf(k)) = 1
    /\ NewestFirst("defer")
    /\ scope.ends = "return" =>
           /\ \A k \in RegisteredWith("errdefer") : EntriesOf(k) = {}
           /\ scope.completion = Completion("return", WrapOk(MainValue))
    /\ scope.ends = "throw" =>
           /\ \A k \in RegisteredWith("errdefer") :
                  /\ Cardinality(EntriesOf(k)) = 1
                  /\ \A x \in EntriesOf(k) : scope.log[x].arg = MainError
           /\ NewestFirst("errdefer")
           /\ \A x, y \in 1..Len(scope.log) :
                  (/\ scope.log[x].cb \in RegisteredWith("errdefer")
                   /\ scope.log[y].cb \in RegisteredWith("defer")) => x < y
           /\ scope.completion = Completion("return", WrapErr(MainError))

\* C26: every callback registered with defer runs exactly once after the
\* main function, newest first, whether the main function returned or
\* threw; the callbacks registered with errdefer run, newest first and with
\* the thrown value, only when the main function threw and before any defer
\* callback; the call returns Ok(returned value) or Err(thrown value) and
\* does not raise.
C26_DeferOrdering ==
    scope # Idle => /\ AfterMain
                    /\ scope.pc = "left" => DeferContract

\* C26 for main functions whose callbacks do not throw
C26_DeferOrderingQuietCallbacks ==
    (/\ scope # Idle
     /\ \A k \in 1..Len(scope.script) : ~scope.script[k].throws) =>
        /\ AfterMain
        /\ scope.pc = "left" => DeferContract

(***************************************************************************)
(* withAsyncDefer (src/unnamed/part_001, lines 42-75) on the event loop.   *)
(* A callback is a plain function, an async function without await, an    *)
(* async function that awaits a settled promise before it finishes, or an  *)
(* async function that awaits a timer before it finishes.  The body of     *)
(* withAsyncDefer after `await fn(...)` is one job; the jobs queued        *)
(* meanwhile (continuations of callbacks, the continuation of the caller   *)
(* awaiting the returned promise) run after it in the order they were      *)
(* queued, and a timer fires only when no such job is left.                *)
(***************************************************************************)
CallbackKinds == {"plain", "async", "asyncAwait", "asyncSleep"}

AsyncRegistrations == [op : {"defer", "errdefer"}, kind : CallbackKinds]

AsyncMainScripts == UNION {[1..n -> AsyncRegistrations] : n \in 0..MaxRegs}

\* the entries a callback writes when it is called and when it finishes
Started(k) == [cb |-> k, ev |-> "start"]
Finished(k) == [cb |-> k, ev |-> "end"]

\* the queued jobs: the continuation of callback k after its await, and the
\* continuation of the caller of withAsyncDefer
CallbackJob(k) == [who |-> "callback", cb |-> k]
CallerJob == [who |-> "caller", cb |-> 0]

\* withAsyncDefer(fn) entered, fn about to run
InitAsyncDefer ==
    /\ heap = <<>> /\ gens = <<>> /\ last = NoCall /\ ncalls = 0
    /\ ocall = NoOptCall /\ pline = Idle
    /\ \E script \in AsyncMainScripts, ends \in {"return", "throw"} :
           scope = [script |-> script, ends |-> ends, pc |-> "main", ip |-> 1,
                    deferredCallbacks |-> <<>>, errdeferredCallbacks |-> <<>>,
                    j |-> 1, completion |-> Completion("none", Bare(JsUndefined)),
                    log |-> <<>>, jobs |-> <<>>, sleeping |-> {},
                    resolved |-> FALSE, seen |-> <<>>]

\* the callback handed to forEach is applied to callback k: k is called and
\* runs up to its first await, if it has one
Apply(sc, k) ==
    CASE sc.script[k].kind \in {"plain", "async"} ->
             [sc EXCEPT !.log = @ \o <<Started(k), Finished(k)>>, !.j = @ + 1]
      [] sc.script[k].kind = "asyncAwait" ->
             [sc EXCEPT !.log = Append(@, Started(k)), !.jobs = Append(@, CallbackJob(k)),
                        !.j = @ + 1]
      [] sc.script[k].kind = "asyncSleep" ->
             [sc EXCEPT !.log = Append(@, Started(k)), !.sleeping = @ \cup {k},
                        !.j = @ + 1]

AsyncDeferRegister ==
    /\ scope.pc = "main" /\ scope.ip <= Len(scope.script)
    /\ scope.script[scope.ip].op = "defer"
    /\ scope' = [scope EXCEPT !.deferredCallbacks = Unshift(@, scope.ip),
                              !.ip = @ + 1]
    /\ UNCHANGED notScope

AsyncErrdeferRegister ==
    /\ scope.pc = "main" /\ scope.ip <= Len(scope.script)
    /\ scope.script[scope.ip].op = "errdefer"
    /\ scope' = [scope EXCEPT !.errdeferredCallbacks = Unshift(@, scope.ip),
                              !.ip = @ + 1]
    /\ UNCHANGED notScope

\* the promise of fn is fulfilled: return Result.ok(result)
AsyncMainReturns ==
    /\ scope.pc = "main" /\ scope.ip > Len(scope.script) /\ scope.ends = "return"
    /\ scope' = [scope EXCEPT !.pc = "finally", !.j = 1,
                              !.completion = Completion("return", WrapOk(MainValue))]
    /\ UNCHANGED notScope

\* the promise of fn is rejected: the catch block is entered
AsyncMainThrows ==
    /\ scope.pc = "main" /\ scope.ip > Len(scope.script) /\ scope.ends = "throw"
    /\ scope' = [scope EXCEPT !.pc = "catch", !.j = 1]
    /\ UNCHANGED notScope

\* errdeferredCallbacks.forEach(async (callback) => ...), next element
AsyncErrdeferRun ==
    /\ scope.pc = "catch" /\ scope.j <= Len(scope.errdeferredCallbacks)
    /\ scope' = Apply(scope, scope.errdeferredCallbacks[scope.j])
    /\ UNCHANGED notScope

AsyncCatchReturns ==
    /\ scope.pc = "catch" /\ scope.j > Len(scope.errdeferredCallbacks)
    /\ scope' = [scope EXCEPT !.pc = "finally", !.j = 1,
                              !.completion = Completion("return", WrapErr(MainError))]
    /\ UNCHANGED notScope

\* deferredCallbacks.forEach(async (callback) => ...), next element
AsyncDeferRun ==
    /\ scope.pc = "finally" /\ scope.j <= Len(scope.deferredCallbacks)
    /\ scope' = Apply(scope, scope.deferredCallbacks[scope.j])
    /\ UNCHANGED notScope

\* the finally block ends: the returned promise is fulfilled and the
\* continuation of its awaiting caller is queued
AsyncFinallyEnds ==
    /\ scope.pc = "finally" /\ scope.j > Len(scope.deferredCallbacks)
    /\ scope' = [scope EXCEPT !.pc = "left", !.jobs = Append(@, CallerJob)]
    /\ UNCHANGED notScope

\* the first queued job runs: a callback goes on after its await and
\* finishes, or the caller goes on with the Result and reads the log
JobRuns ==
    /\ scope.pc = "left" /\ scope.jobs # <<>>
    /\ scope' = IF Head(scope.jobs) = CallerJob
                THEN [scope EXCEPT !.jobs = Tail(@), !.resolved = TRUE,
                                   !.seen = scope.log]
                ELSE [scope EXCEPT !.jobs = Tail(@),
                                   !.log = Append(@, Finished(Head(scope.jobs).cb))]
    /\ UNCHANGED notScope

\* a timer fires, no job being queued: the callback that awaited it goes on
\* and finishes
TimerFires == \E k \in scope.sleeping :
    /\ scope.pc = "left" /\ scope.jobs = <<>>
    /\ scope' = [scope EXCEPT !.sleeping = @ \ {k}, !.log = Append(@, Finished(k))]
    /\ UNCHANGED notScope

NextAsyncDefer ==
    \/ AsyncDeferRegister \/ AsyncErrdeferRegister \/ AsyncMainReturns
    \/ AsyncMainThrows \/ AsyncErrdeferRun \/ AsyncCatchReturns \/ AsyncDeferRun
    \/ AsyncFinallyEnds \/ JobRuns \/ TimerFires

SpecAsyncDefer == InitAsyncDefer /\ [][NextAsyncDefer]_vars

\* the callbacks withAsyncDefer has to run: those registered with defer and,
\* when the main function rejected, those registered with errdefer
DueCallbacks ==
    {k \in 1..Len(scope.script) :
        scope.script[k].op = "defer" \/ scope.ends = "throw"}

\* no callback starts while another has started and not finished
OneAtATime ==
    \A x \in 1..Len(scope.log) :
        scope.log[x].ev = "start" =>
            \A y \in 1..(x - 1) :
                scope.log[y].ev = "start" =>
                    \E z \in (y + 1)..(x - 1) : scope.log[z] = Finished(scope.log[y].cb)

\* the callbacks of one kind start newest first
StartNewestFirst(op) ==
    \A x, y \in 1..Len(scope.log) :
        (/\ x < y /\ scope.log[x].ev = "start" /\ scope.log[y].ev = "start"
         /\ scope.script[scope.log[x].cb].op = op
         /\ scope.script[scope.log[y].cb].op = op) => scope.log[x].cb > scope.log[y].cb

\* when the caller goes on with the Result every due callback has finished
AllFinishedWhenResolved ==
    scope.resolved =>
        \A k \in DueCallbacks : \E x \in 1..Len(scope.seen) : scope.seen[x] = Finished(k)

\* C27: withAsyncDefer runs the defer callbacks (and, when the main function
\* rejected, the errdefer callbacks) newest first, each to completion before
\* the next one starts, asynchronous ones included, and all of them have
\* completed when the promise it returned resolves.
C27_AsyncDeferOrdering ==
    scope # Idle =>
        /\ StartNewestFirst("defer") /\ StartNewestFirst("errdefer")
        /\ OneAtATime
        /\ AllFinishedWhenResolved

\* C27 for callbacks that do not await: plain functions and async functions
\* without await
C27_AsyncDeferOrderingNoAwait ==
    (/\ scope # Idle
     /\ \A k \in 1..Len(scope.script) : scope.script[k].kind \in {"plain", "async"}) =>
        /\ StartNewestFirst("defer") /\ StartNewestFirst("errdefer")
        /\ OneAtATime
        /\ AllFinishedWhenResolved
        /\ scope.resolved =>
               scope.completion.val = IF scope.ends = "return" THEN WrapOk(MainValue)
                                      ELSE WrapErr(MainError)

\* whatever the callbacks, they are started newest first
C27_StartedNewestFirst ==
    scope # Idle => StartNewestFirst("defer") /\ StartNewestFirst("errdefer")

\* o is a sequence returned by take, chunk or zip on a receiver that reads a
\* collection through steps that work element by element
StructuralOverArray(o) ==
    /\ heap[o].source.kind = "gen"
    /\ gens[heap[o].source.g].kind \in {"take", "chunk", "zip"}
    /\ heap[o].operations = <<>> /\ ~heap[o].reversed
    /\ OnArray(gens[heap[o].source.g].recv)
    /\ PerElementOnly(heap[gens[heap[o].source.g].recv].operations)

\* C28: a sequence returned by take(n), chunk(size) or zip(B) over a fixed
\* collection can be collected twice: when the first collect() returned a
\* non-empty Success, the collect() that follows it returns the same.
C28_StructuralRestartable ==
    [][(/\ last.op = "collect" /\ last'.op = "collect" /\ last'.recv = last.recv
        /\ ncalls' = ncalls + 1
        /\ StructuralOverArray(last.recv)
        /\ last.ret.kind = "Ok" /\ last.ret.val # <<>>) =>
           last'.ret = last.ret]_vars

\* what the code does instead: the second collect() returns Success of the
\* empty list
C28_SecondCollectIsEmpty ==
    [][(/\ last.op = "collect" /\ last'.op = "collect" /\ last'.recv = last.recv
        /\ ncalls' = ncalls + 1
        /\ StructuralOverArray(last.recv)
        /\ last.ret.kind = "Ok") =>
           last'.ret = Ok(<<>>)]_vars


\* the receiver of the last call had its reverse flag set, reads an array
\* and has steps that work element by element and do not raise
ReversedCase ==
    /\ last.rev /\ OnArray(last.recv) /\ PerElementOnly(last.ops)
    /\ ~RefRaises(ArrayOf(last.recv), last.ops)

\* the evaluated elements of the receiver of the last call, in source order
SourceOrder == RefCollect(ArrayOf(last.recv), last.ops)

\* C29: only collect() observes the reverse flag, and where reverse() stands
\* in the chain makes no difference: from(A).reverse().skip(k).collect() and
\* from(A).skip(k).reverse().collect() both give the reverse of A[k..];
\* last, find, position, nth, count and reduce on a reversed sequence, and
\* the sequences take, chunk, zip and sortBy build from one, have the
\* elements in source order.
C29_ReverseSeenByCollectOnly ==
    \* collect on reverse and skip(k), in either order
    /\ (/\ last.op = "collect" /\ last.rev /\ OnArray(last.recv)
        /\ SkipThen(last.ops, ArrayOf(last.recv))) =>
           last.ret = Ok(Backwards(RefCollect(Drop(ArrayOf(last.recv), last.ops[1].n),
                                              Tail(last.ops))))
    /\ (/\ last.op = "skip" /\ last.n >= 0 /\ last.rev /\ OnArray(last.recv)
        /\ last.ops = <<>>) =>
           CollectNow(last.recv) = Ok(Backwards(Drop(ArrayOf(last.recv), last.n)))
    /\ (/\ last.op = "reverse" /\ ~last.rev /\ OnArray(last.recv)
        /\ Len(last.ops) = 1 /\ SkipThen(last.ops, ArrayOf(last.recv))) =>
           CollectNow(last.recv) =
               Ok(Backwards(Drop(ArrayOf(last.recv), last.ops[1].n)))
    \* the other consumers
    /\ (ReversedCase /\ last.op = "last") =>
           last.ret = IF SourceOrder = <<>> THEN RetNone
                      ELSE RetSome(SourceOrder[Len(SourceOrder)])
    /\ (ReversedCase /\ last.op = "count") => last.ret = Plain(Len(SourceOrder))
    /\ (ReversedCase /\ last.op \in {"find", "position"}
        /\ \A i \in 1..Len(SourceOrder) : ~CbThrows(last.fn, SourceOrder[i])) =>
           last.ret = SearchResult(last.op, ArrayOf(last.recv), last.ops, last.fn)
    /\ (ReversedCase /\ last.op = "nth" /\ last.n >= 0) => last.ret = NthValue
    /\ (ReversedCase /\ last.op = "reduce" /\ last.fn \in {"add", "sub"}
        /\ SourceOrder # <<>>) =>
           last.ret = RetSome(RefFoldLeft(last.fn, SourceOrder[1], Tail(SourceOrder)))
    \* the sequences built from a reversed sequence
    /\ (ReversedCase /\ last.op = "take" /\ last.ret.kind = "Ref") =>
           /\ ~heap[last.ret.val].reversed
           /\ CollectNow(last.ret.val) = Ok(FirstN(SourceOrder, last.n))
    /\ (ReversedCase /\ last.op = "chunk" /\ last.ret.kind = "Ok") =>
           /\ ~heap[last.ret.val].reversed
           /\ CollectNow(last.ret.val).kind = "Ok"
           /\ Flatten(CollectNow(last.ret.val).val) = SourceOrder
    /\ (ReversedCase /\ last.op = "zip") =>
           /\ ~heap[last.ret.val].reversed
           /\ CollectNow(last.ret.val) =
                  Ok(PairsOf(SourceOrder, gens[heap[last.ret.val].source.g].other))
    /\ (ReversedCase /\ last.op = "sortBy" /\ last.ret.kind = "Ok") =>
           /\ ~heap[last.ret.val].reversed
           /\ IsPermutation(CollectNow(last.ret.val).val, SourceOrder)
           /\ NonDecreasing(CollectNow(last.ret.val).val)

\* reverse().skip(1).collect() over MaxLen elements that differ at the two
\* ends gave the last element first and the second element last
C29_Witness ==
    /\ last.op = "collect" /\ last.rev /\ OnArray(last.recv)
    /\ Len(ArrayOf(last.recv)) = MaxLen
    /\ ArrayOf(last.recv)[2] # ArrayOf(last.recv)[MaxLen]
    /\ Len(last.ops) = 1 /\ last.ops[1].kind = "skip" /\ last.ops[1].n = 1
    /\ last.ret = Ok(<<ArrayOf(last.recv)[MaxLen], ArrayOf(last.recv)[2]>>)


\* o is the sequence zip(other) returned, not evaluated yet and without
\* steps of its own, over a receiver on an array whose steps work element
\* by element
UnstartedZip(o) ==
    /\ heap[o].source.kind = "gen" /\ gens[heap[o].source.g].kind = "zip"
    /\ gens[heap[o].source.g].status = "fresh"
    /\ heap[o].operations = <<>> /\ ~heap[o].reversed
    /\ OnArray(gens[heap[o].source.g].recv)
    /\ PerElementOnly(heap[gens[heap[o].source.g].recv].operations)

\* how many elements of a are pulled until steps ops have yielded k
\* elements: all of a when they yield fewer
PulledFor(a, ops, k) ==
    IF Len(RefCollect(a, ops)) < k THEN Len(a)
    ELSE CHOOSE j \in 0..Len(a) :
             /\ Len(RefCollect(FirstN(a, j), ops)) = k
             /\ j > 0 => Len(RefCollect(FirstN(a, j - 1), ops)) = k - 1

\* the index of the first element of a on which a step of ops raises
FirstRaise(a, ops) ==
    CHOOSE k \in 1..Len(a) :
        /\ RefRaises(<<a[k]>>, ops)
        /\ \A j \in 1..(k - 1) : ~RefRaises(<<a[j]>>, ops)

\* C30: zip advances its inputs in lockstep, the receiver first.  Collecting
\* from(A).zip(B) that gives p pairs has run p + 1 rounds: the receiver has
\* been advanced to its element p + 1 (to its end when it has no such
\* element) and B to its element p + 1 (to its end likewise), neither
\* further, and the generator is finished.  When a step of the receiver
\* raises in a round, B has been advanced in the rounds before it only.
C30_ZipLockstep ==
    [][(/\ last'.op = "collect" /\ ncalls' = ncalls + 1
        /\ UnstartedZip(last'.recv)) =>
           LET g == heap[last'.recv].source.g
               r == gens[g].recv
               a == ArrayOf(r)
               ops == heap[r].operations
               b == gens[g].other
               p == Len(last'.ret.val)
           IN /\ ~RefRaises(a, ops) =>
                     /\ last'.ret.kind = "Ok"
                     /\ last'.pulls = PulledFor(a, ops, p + 1)
                     /\ last'.opulls = Min(Len(b), p + 1)
                     /\ gens'[g].status = "done"
                     /\ gens'[g].pos = last'.pulls /\ gens'[g].opos = last'.opulls
              /\ (/\ RefRaises(a, ops)
                  /\ Len(b) >= Len(RefCollect(FirstN(a, FirstRaise(a, ops) - 1), ops))) =>
                     /\ last'.ret = Err("IterCollectError")
                     /\ last'.pulls = FirstRaise(a, ops)
                     /\ last'.opulls =
                            Len(RefCollect(FirstN(a, FirstRaise(a, ops) - 1), ops))]_vars

\* from(A).zip(B), A of MaxLen elements and B of one, collected: one pair,
\* A advanced to its second element and B to its end
C30_Witness ==
    /\ last.op = "collect" /\ heap[last.recv].source.kind = "gen"
    /\ gens[heap[last.recv].source.g].kind = "zip"
    /\ gens[heap[last.recv].source.g].status = "done"
    /\ OnArray(gens[heap[last.recv].source.g].recv)
    /\ heap[gens[heap[last.recv].source.g].recv].operations = <<>>
    /\ Len(ArrayOf(gens[heap[last.recv].source.g].recv)) = MaxLen
    /\ Len(gens[heap[last.recv].source.g].other) = 1
    /\ last.ret.kind = "Ok" /\ Len(last.ret.val) = 1
    /\ last.pulls = 2 /\ last.opulls = 1
    /\ gens[heap[last.recv].source.g].pos = 2

====
